---- MODULE Spec2Model ----
(***************************************************************************)
(* Model of the operator console of tt-v-bot (src/unnamed/part_000, the    *)
(* canonical React file; src/index.tsx is its near-duplicate).             *)
(*                                                                         *)
(* Part 1: the dual-source synchronization engine (handleSyncFromUrls,     *)
(* fetchWithRetry, handleCancelSync) with the line validator it uses.      *)
(*                                                                         *)
(* JavaScript runs every handler and every promise continuation to its     *)
(* next await on one event loop, so one action of the model is one task    *)
(* together with the microtasks it triggers: a response handled by a unit, *)
(* the settlement of Promise.all and the coordinator's continuation are    *)
(* one step.  Texts are sequences of one-character strings.                *)
(***************************************************************************)
EXTENDS Integers, Sequences, FiniteSets, TLC

\* ------------------------------------------------------------------ bounds
\* number of sync sessions the operator may start (SpecMulti)
MaxSessions == 2
\* number of failed responses the sources give in one behaviour (SpecMulti)
MaxFailures == 1
\* number of synchronize calls rejected for lack of any URL (Spec)
MaxRejected == 1

\* ------------------------------------------------------- program constants
\* default of fetchWithRetry's maxRetries parameter
maxRetries == 3
\* addLog keeps the last 99 entries and appends one
LogKeep == 99
\* the backoff before the second attempt, in ms: wait(1500 * Math.pow(2, attempt))
BackoffBase == 1500

Side == {"A", "B"}
Other(x) == IF x = "A" THEN "B" ELSE "A"

\* type SyncState
SyncState == {"idle", "syncing", "retrying", "success", "error", "cancelled"}

\* ------------------------------------------------------------------ texts
NL == "\n"
Digits == <<"0", "1", "2", "3", "4", "5", "6", "7", "8", "9">>
IsDigit(c) == \E i \in 1..10 : Digits[i] = c
\* numeric value of a digit character
DigitVal(c) == (CHOOSE i \in 1..10 : Digits[i] = c) - 1
\* c is a digit in the character class [lo-hi]
InClass(c, lo, hi) == IsDigit(c) /\ DigitVal(c) >= lo /\ DigitVal(c) <= hi
AllDigits(s) == \A i \in 1..Len(s) : IsDigit(s[i])

\* characters String.prototype.trim removes (those the model's texts use)
IsSpace(c) == c \in {" ", "\t", "\r", NL}

\* mutant: (25[0-5]|2[0-4][0-9]|1[0-9][0-9]|[1-9]?[0-9]), no leading zero
OctetMatch_plain(s) ==
    \/ Len(s) = 3 /\ s[1] = "2" /\ s[2] = "5" /\ InClass(s[3], 0, 5)
    \/ Len(s) = 3 /\ s[1] = "2" /\ InClass(s[2], 0, 4) /\ IsDigit(s[3])
    \/ Len(s) = 3 /\ s[1] = "1" /\ IsDigit(s[2]) /\ IsDigit(s[3])
    \/ Len(s) = 2 /\ InClass(s[1], 1, 9) /\ IsDigit(s[2])
    \/ Len(s) = 1 /\ IsDigit(s[1])

\* (25[0-5]|2[0-4][0-9]|[01]?[0-9][0-9]?) matched against the whole of s
OctetMatch(s) ==
    \/ Len(s) = 3 /\ s[1] = "2" /\ s[2] = "5" /\ InClass(s[3], 0, 5)
    \/ Len(s) = 3 /\ s[1] = "2" /\ InClass(s[2], 0, 4) /\ IsDigit(s[3])
    \/ Len(s) = 3 /\ InClass(s[1], 0, 1) /\ IsDigit(s[2]) /\ IsDigit(s[3])
    \/ Len(s) \in 1..2 /\ AllDigits(s)

\* mutant: the last alternative is 6553[0-9]
PortMatch_6553x(s) ==
    /\ Len(s) >= 1
    /\ AllDigits(s)
    /\ \/ Len(s) \in 1..4 /\ InClass(s[1], 1, 9)
       \/ Len(s) = 5 /\ InClass(s[1], 1, 5)
       \/ Len(s) = 5 /\ s[1] = "6" /\ InClass(s[2], 0, 4)
       \/ Len(s) = 5 /\ s[1] = "6" /\ s[2] = "5" /\ InClass(s[3], 0, 4)
       \/ Len(s) = 5 /\ s[1] = "6" /\ s[2] = "5" /\ s[3] = "5" /\ InClass(s[4], 0, 2)
       \/ Len(s) = 5 /\ s[1] = "6" /\ s[2] = "5" /\ s[3] = "5" /\ s[4] = "3"

\* ([1-9][0-9]{0,3}|[1-5][0-9]{4}|6[0-4][0-9]{3}|65[0-4][0-9]{2}|655[0-2][0-9]|6553[0-5])
PortMatch(s) ==
    /\ Len(s) >= 1
    /\ AllDigits(s)
    /\ \/ Len(s) \in 1..4 /\ InClass(s[1], 1, 9)
       \/ Len(s) = 5 /\ InClass(s[1], 1, 5)
       \/ Len(s) = 5 /\ s[1] = "6" /\ InClass(s[2], 0, 4)
       \/ Len(s) = 5 /\ s[1] = "6" /\ s[2] = "5" /\ InClass(s[3], 0, 4)
       \/ Len(s) = 5 /\ s[1] = "6" /\ s[2] = "5" /\ s[3] = "5" /\ InClass(s[4], 0, 2)
       \/ Len(s) = 5 /\ s[1] = "6" /\ s[2] = "5" /\ s[3] = "5" /\ s[4] = "3" /\ InClass(s[5], 0, 5)

\* the positions of character c in line that lie in lo..Len(line)
Positions(line, c, lo) == {i \in lo..Len(line) : line[i] = c}

\* PROXY_REGEX.test(line): ^(octet\.){3}octet:port$
PROXY_REGEX(line) ==
    \E i1 \in Positions(line, ".", 1) :
        /\ OctetMatch(SubSeq(line, 1, i1 - 1))
        /\ \E i2 \in Positions(line, ".", i1 + 1) :
            /\ OctetMatch(SubSeq(line, i1 + 1, i2 - 1))
            /\ \E i3 \in Positions(line, ".", i2 + 1) :
                /\ OctetMatch(SubSeq(line, i2 + 1, i3 - 1))
                /\ \E i4 \in Positions(line, ":", i3 + 1) :
                    /\ OctetMatch(SubSeq(line, i3 + 1, i4 - 1))
                    /\ PortMatch(SubSeq(line, i4 + 1, Len(line)))

\* text.split('\n'): the pieces between newlines, empty pieces included
RECURSIVE SplitNL(_)
SplitNL(text) ==
    IF \A i \in 1..Len(text) : text[i] # NL
    THEN <<text>>
    ELSE LET k == CHOOSE i \in 1..Len(text) :
                     text[i] = NL /\ \A j \in 1..(i - 1) : text[j] # NL
         IN  <<SubSeq(text, 1, k - 1)>> \o SplitNL(SubSeq(text, k + 1, Len(text)))

\* l.trim()
RECURSIVE Trim(_)
Trim(l) ==
    IF l = <<>> THEN l
    ELSE IF IsSpace(l[1]) THEN Trim(Tail(l))
    ELSE IF IsSpace(l[Len(l)]) THEN Trim(SubSeq(l, 1, Len(l) - 1))
    ELSE l

\* lines.join('\n')
RECURSIVE JoinNL(_)
JoinNL(lines) ==
    IF lines = <<>> THEN <<>>
    ELSE IF Len(lines) = 1 THEN lines[1]
    ELSE lines[1] \o <<NL>> \o JoinNL(Tail(lines))

\* Array.prototype.filter with PROXY_REGEX.test
RECURSIVE FilterValid(_)
FilterValid(lines) ==
    IF lines = <<>> THEN <<>>
    ELSE (IF PROXY_REGEX(lines[1]) THEN <<lines[1]>> ELSE <<>>) \o FilterValid(Tail(lines))

\* filter(l => l.length > 0)
RECURSIVE FilterNonEmpty(_)
FilterNonEmpty(lines) ==
    IF lines = <<>> THEN <<>>
    ELSE (IF Len(lines[1]) > 0 THEN <<lines[1]>> ELSE <<>>) \o FilterNonEmpty(Tail(lines))

\* content.split('\n').map(l => l.trim()).filter(l => l.length > 0)
TrimmedLines(text) ==
    LET parts == SplitNL(text)
    IN  FilterNonEmpty([i \in 1..Len(parts) |-> Trim(parts[i])])

\* ----------------------------------------------------------- sample texts
Line_1234_80 == <<"1", ".", "2", ".", "3", ".", "4", ":", "8", "0">>
Line_9999_1 == <<"9", ".", "9", ".", "9", ".", "9", ":", "1">>
Line_7777_7 == <<"7", ".", "7", ".", "7", ".", "7", ":", "7">>
Line_port0 == <<"1", ".", "2", ".", "3", ".", "4", ":", "0">>
Line_oct256 == <<"2", "5", "6", ".", "1", ".", "1", ".", "1", ":", "8", "0">>
Line_junk == <<"o", "l", "d">>

\* the empty response body
BodyEmpty == <<>>
\* a body of blank lines only
BodyBlank == <<" ", NL>>
\* valid and invalid lines, surrounding blanks, an empty line, a duplicate
BodyMixed ==
    <<" ">> \o Line_1234_80 \o <<" ", NL>> \o Line_oct256 \o <<NL, NL>>
    \o Line_9999_1 \o <<"\r", NL>> \o Line_1234_80
\* no line matches
BodyBad == Line_port0 \o <<NL>> \o Line_junk

\* response bodies the remote sources may serve
Bodies == {BodyEmpty, BodyBlank, BodyMixed, BodyBad}

\* the proxy lists reloaded from localStorage at startup
StoredLeft == Line_7777_7
StoredRight == Line_junk \o <<NL>> \o Line_7777_7

\* the URL inputs: empty or some address
UrlSome == "https://source.nodes/list"
Urls == {"", UrlSome}

\* ------------------------------------------------------------------ state
Sessions == 1..MaxSessions
\* abortControllerRef.current = null
Null == 0
\* the value a unit resolves with: null or a body text
NullResult == [isNull |-> TRUE, text |-> <<>>]
Content(t) == [isNull |-> FALSE, text |-> t]
\* JavaScript truthiness of a string | null: null and "" are falsy
Truthy(r) == ~r.isNull /\ r.text # <<>>

VARIABLES
    url,        \* urlA, urlB: the two URL inputs
    proxies,    \* proxiesLeft (side A), proxiesRight (side B)
    status,     \* statusA, statusB
    abortRef,   \* abortControllerRef.current: Null or the session whose controller it holds
    aborted,    \* signal.aborted of each session's AbortController
    unit,       \* each session's two fetchWithRetry calls: position, loop index, result
    coord,      \* each session's handleSyncFromUrls call: position
    logs,       \* the Log Buffer
    atAbort,    \* history: what each side's unit was doing when the token was signalled
    sim         \* the run configuration, the run state and the Metrics Simulator (a record)

vars == <<url, proxies, status, abortRef, aborted, unit, coord, logs, atAbort, sim>>

statusA == status["A"]
statusB == status["B"]
urlA == url["A"]
urlB == url["B"]
proxiesLeft == proxies["A"]
proxiesRight == proxies["B"]

\* positions of a fetchWithRetry call
\*   none      not called
\*   fetch     awaiting fetch(proxyUrl, {signal})
\*   body      awaiting response.text()
\*   wait      awaiting wait(1500 * 2^attempt)
\*   returned  resolved with result
\*   thrown    rejected with the AbortError
UnitPc == {"none", "fetch", "body", "wait", "returned", "thrown"}
\* positions of a handleSyncFromUrls call
\*   none        not started        awaiting    at await Promise.all
\*   aggregated  finished through the forEach
\*   cancelled   finished through the AbortError branch of catch
CoordPc == {"none", "awaiting", "aggregated", "cancelled"}

\* a fetchWithRetry call: its url argument, its position, the loop variable
\* attempt and the value it resolved with; and, as history, the number of
\* requests it issued (calls), of failed responses it got (fails), and
\* when its AbortError was thrown (late): "no" while the coordinator was
\* still waiting, "handled" after the coordinator had finished, "newer"
\* after a newer session had been started; and the delays, in ms, of the
\* wait calls it made (delays), in order
UnitInit ==
    [url |-> "", pc |-> "none", attempt |-> 0, result |-> NullResult,
     calls |-> 0, fails |-> 0, late |-> "no", delays |-> <<>>]

\* useState(100000), useState(33): the configuration after the page loaded
videoViewsDefault == 100000
incrementPercentageDefault == 33
\* slice(-25): the History Buffer keeps the last 25 points
HistoryKeep == 25

\* positions of the asynchronous part of a handleStartBot call
\*   none     no call is running (isProcessing is false)
\*   calling  awaiting ai.models.generateContent
\*   lines    in the for loop over the lines of the reply, at await wait(...)
ProcPc == {"none", "calling", "lines"}

\* list A was not written from numbers
NoNumbers == [octets |-> <<>>, pads |-> <<>>, port |-> 0, zeros |-> 0]

\* the state of the run and of the simulator after the page loaded; status is
\* the component's status ('Connected' | 'Running'), started is the tick
\* count at the last accepted start, and as history: ticks, the number of
\* interval callbacks run so far; runs, the number of accepted starts; draws,
\* the number of random draws that were not the smallest; extras, the number
\* of rejected starts and of handleStopBot calls made while not running;
\* edits, the number of edits of the configuration and of the proxy lists;
\* cleared, whether RESET DATA was clicked since the last accepted start;
\* nonneg, whether every interval callback since the last accepted start ran
\* with videoViews >= 0 and incrementPercentage >= 0;
\* typed, the numbers the operator wrote as the line in list A, if the list
\* is one line written from four octets and a port (pads[i] is the number of
\* zeros put before octet i and zeros the number of zeros put before the
\* port), and NoNumbers otherwise; left, the
\* number of reply lines the running handleStartBot call has still to log
SimInit ==
    [videoViews |-> videoViewsDefault,
     incrementPercentage |-> incrementPercentageDefault,
     status |-> "Connected", isProcessing |-> FALSE, proc |-> "none",
     viewHistory |-> <<>>, simulatedViews |-> videoViewsDefault,
     threads |-> 0, successRate |-> 100,
     ticks |-> 0, started |-> 0, runs |-> 0, draws |-> 0, extras |-> 0, edits |-> 0,
     cleared |-> FALSE, nonneg |-> TRUE, typed |-> NoNumbers, left |-> 0]

Init ==
    /\ url \in [Side -> Urls]
    /\ proxies = [x \in Side |-> IF x = "A" THEN StoredLeft ELSE StoredRight]
    /\ status = [x \in Side |-> "idle"]
    /\ abortRef = Null
    /\ aborted = [s \in Sessions |-> FALSE]
    /\ unit = [s \in Sessions |-> [x \in Side |-> UnitInit]]
    /\ coord = [s \in Sessions |-> "none"]
    /\ logs = <<>>
    /\ atAbort = [s \in Sessions |-> [pending |-> {}, waiting |-> {}]]
    /\ sim = SimInit

\* mutant: the check of line 389 is missing
NoEndpoints_never == FALSE

\* line 389: !urlA && !urlB
NoEndpoints == urlA = "" /\ urlB = ""

\* mutant: only side A's state is looked at
isSyncing_onlyA == status["A"] = "syncing" \/ status["A"] = "retrying"

\* line 296
isSyncing ==
    statusA = "syncing" \/ statusB = "syncing" \/ statusA = "retrying" \/ statusB = "retrying"

\* ------------------------------------------------------------- log buffer
\* a log entry: severity, which message, and the values the message carries
\* (side, two numbers); sess tags the session whose code logged it
Entry(type, msg, side, a, b, sess) ==
    [type |-> type, msg |-> msg, side |-> side, a |-> a, b |-> b, sess |-> sess]

\* prev.slice(-99)
SliceLast(seq, n) == SubSeq(seq, IF Len(seq) > n THEN Len(seq) - n + 1 ELSE 1, Len(seq))

\* addLog: setLogs(prev => [...prev.slice(-99), entry])
addLog(lg, e) == Append(SliceLast(lg, LogKeep), e)

\* ------------------------------------------- the mutable state as a record
\* The handlers below are sequences of assignments; each operator takes the
\* state so far as a record w and yields the state after its statements.
World ==
    [unit |-> unit, status |-> status, logs |-> logs, proxies |-> proxies,
     abortRef |-> abortRef, coord |-> coord]

Apply(w) ==
    /\ unit' = w.unit
    /\ status' = w.status
    /\ logs' = w.logs
    /\ proxies' = w.proxies
    /\ abortRef' = w.abortRef
    /\ coord' = w.coord

setStatus(w, x, v) == [w EXCEPT !.status[x] = v]
Log(w, e) == [w EXCEPT !.logs = addLog(w.logs, e)]
Return(w, s, x, r) == [w EXCEPT !.unit[s][x].pc = "returned", !.unit[s][x].result = r]
Throw(w, s, x) ==
    [w EXCEPT !.unit[s][x].pc = "thrown",
              !.unit[s][x].late =
                  IF w.coord[s] = "awaiting" THEN "no"
                  ELSE IF \E t \in Sessions : t > s /\ w.coord[t] # "none" THEN "newer"
                  ELSE "handled"]

\* --------------------------------------------------------- fetchWithRetry
\* mutant: the loop reads abortControllerRef.current, not the captured signal
signalAborted_ref(s) == abortRef # Null /\ aborted[abortRef]

\* signal.aborted of the signal the session's closures captured (line 394)
signalAborted(s) == aborted[s]

\* mutant: setStatus runs before the abort check
LoopTop_statusFirst(w, s, x, a) ==
    LET w1 == setStatus(w, x, IF a = 0 THEN "syncing" ELSE "retrying")
    IN  IF signalAborted(s)
        THEN Throw(w1, s, x)
        ELSE [w1 EXCEPT !.unit[s][x].pc = "fetch",
                        !.unit[s][x].attempt = a,
                        !.unit[s][x].calls = @ + 1]

\* mutant: every attempt sets the side to syncing
LoopTop_alwaysSyncing(w, s, x, a) ==
    IF signalAborted(s)
    THEN Throw(w, s, x)
    ELSE LET w1 == setStatus(w, x, "syncing")
         IN  [w1 EXCEPT !.unit[s][x].pc = "fetch",
                        !.unit[s][x].attempt = a,
                        !.unit[s][x].calls = @ + 1]

\* lines 400-410: top of the for loop at index a: the abort check, then
\* setStatus and the call of fetch, up to the await
LoopTop(w, s, x, a) ==
    IF signalAborted(s)
    THEN Throw(w, s, x)
    ELSE LET w1 == setStatus(w, x, IF a = 0 THEN "syncing" ELSE "retrying")
         IN  [w1 EXCEPT !.unit[s][x].pc = "fetch",
                        !.unit[s][x].attempt = a,
                        !.unit[s][x].calls = @ + 1]

\* mutant: the early return for an empty url is missing
fetchWithRetry_noUrlCheck(w, s, x, u) ==
    LoopTop([w EXCEPT !.unit[s][x].url = u], s, x, 0)

\* mutant: a call with an empty url resets the side to idle before it returns
fetchWithRetry_resetIdle(w, s, x, u) ==
    LET w1 == [w EXCEPT !.unit[s][x].url = u]
    IN  IF u = ""
        THEN Return(setStatus(w1, x, "idle"), s, x, NullResult)
        ELSE LoopTop(w1, s, x, 0)

\* mutant: the call for side B is made only once the call for side A returned
fetchWithRetry_sequential(w, s, x, u) ==
    LET w1 == [w EXCEPT !.unit[s][x].url = u]
    IN  IF u = ""
        THEN Return(w1, s, x, NullResult)
        ELSE IF x = "B" /\ w.unit[s]["A"].pc # "returned"
        THEN w1
        ELSE LoopTop(w1, s, x, 0)

\* lines 396-400: the call itself, which runs up to its first await
fetchWithRetry(w, s, x, u) ==
    LET w1 == [w EXCEPT !.unit[s][x].url = u]
    IN  IF u = ""
        THEN Return(w1, s, x, NullResult)
        ELSE LoopTop(w1, s, x, 0)

\* mutant: setStatus('success') is missing
OnBody_noStatus(w, s, x, text) == Return(w, s, x, Content(text))

\* mutant: the unit writes the side's proxy list as soon as its body arrived
OnBody_eagerWrite(w, s, x, text) ==
    LET w1 == [w EXCEPT !.proxies[x] = JoinNL(FilterValid(TrimmedLines(text)))]
    IN  Return(setStatus(w1, x, "success"), s, x, Content(text))

\* lines 412-414: the body arrived
OnBody(w, s, x, text) == Return(setStatus(w, x, "success"), s, x, Content(text))

\* mutant: the delay grows by 1500 ms per attempt
Backoff_linear(a) == BackoffBase * (a + 1)

\* line 435: 1500 * Math.pow(2, attempt)
Backoff(a) == BackoffBase * 2 ^ a

\* line 42: wait(ms), a timer of ms milliseconds that nothing cancels
wait(w, s, x, ms) ==
    [w EXCEPT !.unit[s][x].pc = "wait", !.unit[s][x].delays = Append(@, ms)]

\* mutant: the loop gives up one attempt early
OnFailure_offByOne(w, s, x) ==
    LET a  == w.unit[s][x].attempt
        w1 == Log([w EXCEPT !.unit[s][x].fails = @ + 1],
                  Entry("warning", "attemptFailed", x, a + 1, maxRetries + 1, s))
    IN  IF a + 1 = maxRetries
        THEN Return(Log(setStatus(w1, x, "error"),
                        Entry("error", "terminalFailure", x, maxRetries + 1, 0, s)),
                    s, x, NullResult)
        ELSE wait(w1, s, x, Backoff(a))

\* mutant: setStatus('error') is missing on the last attempt
OnFailure_noErrorStatus(w, s, x) ==
    LET a  == w.unit[s][x].attempt
        w1 == Log([w EXCEPT !.unit[s][x].fails = @ + 1],
                  Entry("warning", "attemptFailed", x, a + 1, maxRetries + 1, s))
    IN  IF a = maxRetries
        THEN Return(Log(w1, Entry("error", "terminalFailure", x, maxRetries + 1, 0, s)),
                    s, x, NullResult)
        ELSE wait(w1, s, x, Backoff(a))

\* mutant: the loop gives up one attempt late
OnFailure_oneMore(w, s, x) ==
    LET a  == w.unit[s][x].attempt
        w1 == Log([w EXCEPT !.unit[s][x].fails = @ + 1],
                  Entry("warning", "attemptFailed", x, a + 1, maxRetries + 1, s))
    IN  IF a = maxRetries + 1
        THEN Return(Log(setStatus(w1, x, "error"),
                        Entry("error", "terminalFailure", x, maxRetries + 1, 0, s)),
                    s, x, NullResult)
        ELSE wait(w1, s, x, Backoff(a))

\* lines 415-436: the catch block for an error that is not the AbortError
OnFailure(w, s, x) ==
    LET a  == w.unit[s][x].attempt
        w1 == Log([w EXCEPT !.unit[s][x].fails = @ + 1],
                  Entry("warning", "attemptFailed", x, a + 1, maxRetries + 1, s))
    IN  IF a = maxRetries
        THEN Return(Log(setStatus(w1, x, "error"),
                        Entry("error", "terminalFailure", x, maxRetries + 1, 0, s)),
                    s, x, NullResult)
        ELSE wait(w1, s, x, Backoff(a))

\* mutant: the catch block handles the AbortError as one more failed attempt
OnAbort_asFailure(w, s, x) ==
    IF w.unit[s][x].pc \in {"fetch", "body"} THEN OnFailure(w, s, x) ELSE w

\* line 417: the catch block rethrows the AbortError of an aborted request
OnAbort(w, s, x) ==
    IF w.unit[s][x].pc \in {"fetch", "body"} THEN Throw(w, s, x) ELSE w

\* ----------------------------------------------------- handleSyncFromUrls
\* mutant: the list is replaced by all the trimmed lines, unfiltered
AggregateSide_unfiltered(w, s, x) ==
    LET content == w.unit[s][x].result
    IN  IF ~Truthy(content)
        THEN w
        ELSE LET allLines     == TrimmedLines(content.text)
                 validProxies == FilterValid(allLines)
                 w1           == [w EXCEPT !.proxies[x] = JoinNL(allLines)]
             IN  IF Len(validProxies) = 0 /\ Len(allLines) > 0
                 THEN Log(w1, Entry("warning", "noValidLines", x, 0, Len(allLines), s))
                 ELSE Log(w1, Entry("success", "syncComplete", x,
                                    Len(validProxies), Len(allLines), s))

\* mutant: the success entry is logged whatever the number of valid lines
AggregateSide_alwaysSuccess(w, s, x) ==
    LET content == w.unit[s][x].result
    IN  IF ~Truthy(content)
        THEN w
        ELSE LET allLines     == TrimmedLines(content.text)
                 validProxies == FilterValid(allLines)
                 w1           == [w EXCEPT !.proxies[x] = JoinNL(validProxies)]
             IN  Log(w1, Entry("success", "syncComplete", x,
                                Len(validProxies), Len(allLines), s))

\* lines 443-456: the forEach body for one side
AggregateSide(w, s, x) ==
    LET content == w.unit[s][x].result
    IN  IF ~Truthy(content)
        THEN w
        ELSE LET allLines     == TrimmedLines(content.text)
                 validProxies == FilterValid(allLines)
                 w1           == [w EXCEPT !.proxies[x] = JoinNL(validProxies)]
             IN  IF Len(validProxies) = 0 /\ Len(allLines) > 0
                 THEN Log(w1, Entry("warning", "noValidLines", x, 0, Len(allLines), s))
                 ELSE Log(w1, Entry("success", "syncComplete", x,
                                    Len(validProxies), Len(allLines), s))

\* mutant: the finally block leaves the controller installed
Finally_keepRef(w) == w

\* lines 467-469: finally
Finally(w) == [w EXCEPT !.abortRef = Null]

\* lines 442-457 and finally: Promise.all fulfilled
Aggregate(w, s) ==
    LET w1 == AggregateSide(w, s, "A")
        w2 == AggregateSide(w1, s, "B")
    IN  Finally([w2 EXCEPT !.coord[s] = "aggregated"])

\* mutant: the reset of the cancelled sides is missing
ResetIfBusy_keep(v) == v

\* mutant: the cancellation branch sets the side to idle whatever its state
ResetIfBusy_always(v) == "idle"

\* setStatusX(prev => (prev === 'syncing' || prev === 'retrying') ? 'idle' : prev)
ResetIfBusy(v) == IF v \in {"syncing", "retrying"} THEN "idle" ELSE v

\* mutant: the cancellation branch also writes the lists of the sides that
\* had returned content
CatchAbort_aggregates(w, s) ==
    LET w1 == Log(w, Entry("warning", "manuallyTerminated", "-", 0, 0, s))
        w2 == setStatus(w1, "A", ResetIfBusy(w1.status["A"]))
        w3 == setStatus(w2, "B", ResetIfBusy(w2.status["B"]))
        w4 == AggregateSide(AggregateSide(w3, s, "A"), s, "B")
    IN  Finally([w4 EXCEPT !.coord[s] = "cancelled"])

\* lines 458-463 and finally: Promise.all rejected with the AbortError
CatchAbort(w, s) ==
    LET w1 == Log(w, Entry("warning", "manuallyTerminated", "-", 0, 0, s))
        w2 == setStatus(w1, "A", ResetIfBusy(w1.status["A"]))
        w3 == setStatus(w2, "B", ResetIfBusy(w2.status["B"]))
    IN  Finally([w3 EXCEPT !.coord[s] = "cancelled"])

\* line 441: await Promise.all([...]): rejected by the first rejection,
\* fulfilled once both calls are; settles once
AwaitAll(w, s) ==
    IF w.coord[s] # "awaiting" THEN w
    ELSE IF \E x \in Side : w.unit[s][x].pc = "thrown" THEN CatchAbort(w, s)
    ELSE IF \A x \in Side : w.unit[s][x].pc = "returned" THEN Aggregate(w, s)
    ELSE w

\* failed responses so far, over all units
RECURSIVE SumFails(_)
SumFails(S) ==
    IF S = {} THEN 0
    ELSE LET p == CHOOSE q \in S : TRUE
         IN  unit[p[1]][p[2]].fails + SumFails(S \ {p})
TotalFails == SumFails(Sessions \X Side)

NextSession == Cardinality({s \in Sessions : coord[s] # "none"}) + 1
Rejected == Cardinality({i \in 1..Len(logs) : logs[i].msg = "noEndpoints"})

\* lines 387-441: the click on Synchronize, up to await Promise.all
handleSyncFromUrls(maxS, maxR) ==
    IF isSyncing
    THEN UNCHANGED vars
    ELSE IF NoEndpoints
    THEN /\ Rejected < maxR
         /\ logs' = addLog(logs, Entry("error", "noEndpoints", "-", 0, 0, 0))
         /\ UNCHANGED <<url, proxies, status, abortRef, aborted, unit, coord, atAbort, sim>>
    ELSE /\ NextSession <= maxS
         /\ LET s  == NextSession
                w0 == [World EXCEPT !.abortRef = s, !.coord[s] = "awaiting"]
                w1 == Log(w0, Entry("info", "initiating", "-", 0, 0, s))
                w2 == fetchWithRetry(w1, s, "A", urlA)
                w3 == fetchWithRetry(w2, s, "B", urlB)
            IN  Apply(AwaitAll(w3, s))
         /\ UNCHANGED <<url, aborted, atAbort, sim>>

\* lines 472-476: the click on Cancel; abort() rejects the pending fetch and
\* body reads of the session at once
handleCancelSync ==
    IF abortRef = Null
    THEN UNCHANGED vars
    ELSE LET s  == abortRef
             w1 == OnAbort(World, s, "A")
             w2 == OnAbort(w1, s, "B")
         IN  /\ aborted' = [aborted EXCEPT ![s] = TRUE]
             /\ atAbort' = IF aborted[s] THEN atAbort
                           ELSE [atAbort EXCEPT ![s] =
                                   [pending |-> {x \in Side : unit[s][x].pc \in {"fetch", "body", "wait"}},
                                    waiting |-> {x \in Side : unit[s][x].pc = "wait"}]]
             /\ Apply(AwaitAll(w2, s))
             /\ UNCHANGED <<url, sim>>

\* ------------------------------------------------------------ environment
\* fetch resolved with response.ok
FetchOk(s, x) ==
    /\ unit[s][x].pc = "fetch"
    /\ unit' = [unit EXCEPT ![s][x].pc = "body"]
    /\ UNCHANGED <<url, proxies, status, abortRef, aborted, coord, logs, atAbort, sim>>

\* fetch resolved with a non-ok status: line 411 throws HTTP_<status>
FetchHttpError(s, x, maxF) ==
    /\ TotalFails < maxF
    /\ unit[s][x].pc = "fetch"
    /\ Apply(AwaitAll(OnFailure(World, s, x), s))
    /\ UNCHANGED <<url, aborted, atAbort, sim>>

\* fetch rejected with a TypeError (network, CORS)
FetchNetworkError(s, x, maxF) ==
    /\ TotalFails < maxF
    /\ unit[s][x].pc = "fetch"
    /\ Apply(AwaitAll(OnFailure(World, s, x), s))
    /\ UNCHANGED <<url, aborted, atAbort, sim>>

\* response.text() resolved
BodyRead(s, x, text) ==
    /\ unit[s][x].pc = "body"
    /\ Apply(AwaitAll(OnBody(World, s, x, text), s))
    /\ UNCHANGED <<url, aborted, atAbort, sim>>

\* response.text() rejected: the connection broke while the body was read
BodyError(s, x, maxF) ==
    /\ TotalFails < maxF
    /\ unit[s][x].pc = "body"
    /\ Apply(AwaitAll(OnFailure(World, s, x), s))
    /\ UNCHANGED <<url, aborted, atAbort, sim>>

\* line 42, 435: the backoff timer fired; the loop goes on with attempt + 1
BackoffElapsed(s, x) ==
    /\ unit[s][x].pc = "wait"
    /\ Apply(AwaitAll(LoopTop(World, s, x, unit[s][x].attempt + 1), s))
    /\ UNCHANGED <<url, aborted, atAbort, sim>>

\* lines 619, 626: the operator edits a URL input.  The inputs are read only
\* by the click on Synchronize (lines 388-397, 441), so an edit made during a
\* session has the effect of the same edit made after it; only the latter
\* is explored.
SetUrl(x, v) ==
    /\ url[x] # v
    /\ ~isSyncing
    /\ url' = [url EXCEPT ![x] = v]
    /\ UNCHANGED <<proxies, status, abortRef, aborted, unit, coord, logs, atAbort, sim>>

\* the environment: at most maxS sessions, at most maxR clicks on Synchronize
\* with both URLs empty, at most maxF failed responses, bodies drawn from B
NextOf(maxS, maxR, maxF, B) ==
    \/ handleSyncFromUrls(maxS, maxR)
    \/ handleCancelSync
    \/ \E s \in Sessions, x \in Side : FetchOk(s, x)
    \/ \E s \in Sessions, x \in Side : FetchHttpError(s, x, maxF)
    \/ \E s \in Sessions, x \in Side : FetchNetworkError(s, x, maxF)
    \/ \E s \in Sessions, x \in Side, text \in B : BodyRead(s, x, text)
    \/ \E s \in Sessions, x \in Side : BodyError(s, x, maxF)
    \/ \E s \in Sessions, x \in Side : BackoffElapsed(s, x)
    \/ \E x \in Side, v \in Urls : SetUrl(x, v)

\* both units of a session can fail on every attempt
AllFailures == 2 * (maxRetries + 1)

\* Spec: the first session after the page is loaded, against sources that
\* may fail any attempt and serve any of the bodies
Next == NextOf(1, MaxRejected, AllFailures, Bodies)
Spec == Init /\ [][Next]_vars

\* the environment is fair: every request issued yields a response or a
\* failure, every body read ends, every backoff timer fires.  Nothing is
\* assumed about the operator's clicks.  The condition on the body read is
\* WF_vars(BodyRead or BodyError) written out: the action is enabled exactly
\* while the unit is at the body read, and it leaves that position.
Fairness ==
    \A s \in Sessions, x \in Side :
        /\ WF_vars(\/ FetchOk(s, x)
                   \/ FetchHttpError(s, x, AllFailures)
                   \/ FetchNetworkError(s, x, AllFailures))
        /\ []<>(unit[s][x].pc # "body")
        /\ WF_vars(BackoffElapsed(s, x))

\* SpecFair: the first session against fair sources that may fail any
\* attempt and serve BodyMixed; every click on Synchronize has a URL
NextFair == NextOf(1, 0, AllFailures, {BodyMixed})
SpecFair == Init /\ [][NextFair]_vars /\ Fairness

\* SpecMulti: up to MaxSessions sessions, one after the other, each clicked
\* with a URL present, against sources that fail at most MaxFailures times
\* and serve BodyMixed
NextMulti == NextOf(MaxSessions, 0, MaxFailures, {BodyMixed})
SpecMulti == Init /\ [][NextMulti]_vars

\* SpecRetry: as SpecMulti, against sources that fail often enough for one
\* side to use up all its attempts
NextRetry == NextOf(MaxSessions, 0, maxRetries + 1, {BodyMixed})
SpecRetry == Init /\ [][NextRetry]_vars

\* ========================================================= validateProxies
\* Array.prototype.filter with !PROXY_REGEX.test
RECURSIVE FilterInvalid(_)
FilterInvalid(lines) ==
    IF lines = <<>> THEN <<>>
    ELSE (IF PROXY_REGEX(lines[1]) THEN <<>> ELSE <<lines[1]>>) \o FilterInvalid(Tail(lines))

\* mutant: blank lines are counted and the text without lines is not special
validateProxies_countBlank(text) ==
    LET lines        == TrimmedLines(text)
        invalidLines == FilterInvalid(lines)
    IN  [isValid      |-> Len(invalidLines) = 0,
         invalidLines |-> invalidLines,
         totalLines   |-> Len(SplitNL(text))]

\* lines 30-40
validateProxies(text) ==
    LET lines == TrimmedLines(text)
    IN  IF Len(lines) = 0
        THEN [isValid |-> TRUE, invalidLines |-> <<>>, totalLines |-> 0]
        ELSE LET invalidLines == FilterInvalid(lines)
             IN  [isValid |-> Len(invalidLines) = 0,
                  invalidLines |-> invalidLines,
                  totalLines |-> Len(lines)]

\* lines 299-300: the memos, recomputed when a proxy list changes
validationLeft == validateProxies(proxiesLeft)
validationRight == validateProxies(proxiesRight)

\* ======================================================= Metrics Simulator
\* The random numbers of one interval callback, drawn together: the factor
\* Math.random() * 0.4 + 0.8 in thousandths (in IEEE doubles the largest
\* value of the expression rounds to the double 1.2), the success rate
\* 94 + Math.random() * 5.9 rounded down, the change of the thread count
\* Math.random() * 10 - 5 rounded down, and the thread count
\* Math.floor(Math.random() * 50) + 120 set when the effect starts.
Draws ==
    {[level |-> "lo",  factor |-> 800,  rate |-> 94, step |-> -5, threads |-> 120],
     [level |-> "mid", factor |-> 1000, rate |-> 96, step |-> 0,  threads |-> 145],
     [level |-> "hi",  factor |-> 1200, rate |-> 99, step |-> 4,  threads |-> 169]}

\* line 340: Math.floor(videoViews * (incrementPercentage / 100) * r) for
\* r = k / 1000, in exact arithmetic and without exceeding 2^31
delta(v, p, k) ==
    LET q == v * p
    IN  (q \div 100000) * k + ((q % 100000) * k) \div 100000

\* { time, views }: time stands for the clock reading, the number of ticks
\* so far
Point(t, v) == [time |-> t, views |-> v]

Max(a, b) == IF a >= b THEN a ELSE b

\* mutant: the seed point is appended to the history of the earlier run and the
\* total is not seeded
handleStartBot_keepHistory(d, maxRuns, maxDraws, maxExtras) ==
    /\ sim.status # "Running"
    /\ IF sim.isProcessing
       THEN UNCHANGED vars
       ELSE LET a     == IF validationLeft.isValid THEN 0 ELSE Len(validationLeft.invalidLines)
                b     == IF validationRight.isValid THEN 0 ELSE Len(validationRight.invalidLines)
                empty == validationLeft.totalLines = 0 /\ validationRight.totalLines = 0
            IN  IF ~validationLeft.isValid \/ ~validationRight.isValid \/ empty
                THEN /\ sim.extras < maxExtras
                     /\ d.level = "lo"
                     /\ logs' = addLog(logs, Entry("error", "preflightFailed",
                                                   IF empty THEN "empty" ELSE "-", a, b, 0))
                     /\ sim' = [sim EXCEPT !.extras = @ + 1]
                     /\ UNCHANGED <<url, proxies, status, abortRef, aborted, unit, coord, atAbort>>
                ELSE /\ sim.runs < maxRuns
                     /\ d.level # "lo" => sim.draws < maxDraws
                     /\ sim' = [sim EXCEPT !.isProcessing = TRUE,
                                           !.proc = "calling",
                                           !.status = "Running",
                                           !.viewHistory = SliceLast(Append(@, Point(sim.ticks, sim.videoViews)), HistoryKeep),
                                           !.threads = d.threads,
                                           !.started = sim.ticks,
                                           !.cleared = FALSE,
                                           !.nonneg = TRUE,
                                           !.runs = @ + 1,
                                           !.draws = IF d.level = "lo" THEN @ ELSE @ + 1]
                     /\ logs' = addLog(logs, Entry("info", "initiatingInjection", "-", 0, 0, 0))
                     /\ UNCHANGED <<url, proxies, status, abortRef, aborted, unit, coord, atAbort>>

\* mutant: the handler does not return while isProcessing is set
handleStartBot_noBusyCheck(d, maxRuns, maxDraws, maxExtras) ==
    /\ sim.status # "Running"
    /\ IF FALSE
       THEN UNCHANGED vars
       ELSE LET a     == IF validationLeft.isValid THEN 0 ELSE Len(validationLeft.invalidLines)
                b     == IF validationRight.isValid THEN 0 ELSE Len(validationRight.invalidLines)
                empty == validationLeft.totalLines = 0 /\ validationRight.totalLines = 0
            IN  IF ~validationLeft.isValid \/ ~validationRight.isValid \/ empty
                THEN /\ sim.extras < maxExtras
                     /\ d.level = "lo"
                     /\ logs' = addLog(logs, Entry("error", "preflightFailed",
                                                   IF empty THEN "empty" ELSE "-", a, b, 0))
                     /\ sim' = [sim EXCEPT !.extras = @ + 1]
                     /\ UNCHANGED <<url, proxies, status, abortRef, aborted, unit, coord, atAbort>>
                ELSE /\ sim.runs < maxRuns
                     /\ d.level # "lo" => sim.draws < maxDraws
                     /\ sim' = [sim EXCEPT !.isProcessing = TRUE,
                                           !.proc = "calling",
                                           !.status = "Running",
                                           !.simulatedViews = sim.videoViews,
                                           !.viewHistory = <<Point(sim.ticks, sim.videoViews)>>,
                                           !.threads = d.threads,
                                           !.started = sim.ticks,
                                           !.cleared = FALSE,
                                           !.nonneg = TRUE,
                                           !.runs = @ + 1,
                                           !.draws = IF d.level = "lo" THEN @ ELSE @ + 1]
                     /\ logs' = addLog(logs, Entry("info", "initiatingInjection", "-", 0, 0, 0))
                     /\ UNCHANGED <<url, proxies, status, abortRef, aborted, unit, coord, atAbort>>

\* mutant: a rejected start also empties the History Buffer
handleStartBot_rejectResets(d, maxRuns, maxDraws, maxExtras) ==
    /\ sim.status # "Running"
    /\ IF sim.isProcessing
       THEN UNCHANGED vars
       ELSE LET a     == IF validationLeft.isValid THEN 0 ELSE Len(validationLeft.invalidLines)
                b     == IF validationRight.isValid THEN 0 ELSE Len(validationRight.invalidLines)
                empty == validationLeft.totalLines = 0 /\ validationRight.totalLines = 0
            IN  IF ~validationLeft.isValid \/ ~validationRight.isValid \/ empty
                THEN /\ sim.extras < maxExtras
                     /\ d.level = "lo"
                     /\ logs' = addLog(logs, Entry("error", "preflightFailed",
                                                   IF empty THEN "empty" ELSE "-", a, b, 0))
                     /\ sim' = [sim EXCEPT !.extras = @ + 1, !.viewHistory = <<>>]
                     /\ UNCHANGED <<url, proxies, status, abortRef, aborted, unit, coord, atAbort>>
                ELSE /\ sim.runs < maxRuns
                     /\ d.level # "lo" => sim.draws < maxDraws
                     /\ sim' = [sim EXCEPT !.isProcessing = TRUE,
                                           !.proc = "calling",
                                           !.status = "Running",
                                           !.simulatedViews = sim.videoViews,
                                           !.viewHistory = <<Point(sim.ticks, sim.videoViews)>>,
                                           !.threads = d.threads,
                                           !.started = sim.ticks,
                                           !.cleared = FALSE,
                                           !.nonneg = TRUE,
                                           !.runs = @ + 1,
                                           !.draws = IF d.level = "lo" THEN @ ELSE @ + 1]
                     /\ logs' = addLog(logs, Entry("info", "initiatingInjection", "-", 0, 0, 0))
                     /\ UNCHANGED <<url, proxies, status, abortRef, aborted, unit, coord, atAbort>>

\* lines 502-519: the click on INITIATE BATCH up to the first await, and the
\* effect of lines 334-337 for the status 'Running'; d is the random draw of
\* the effect.  The button is rendered while status is not 'Running' (lines
\* 687-690).
handleStartBot(d, maxRuns, maxDraws, maxExtras) ==
    /\ sim.status # "Running"
    /\ IF sim.isProcessing
       THEN UNCHANGED vars
       ELSE LET a     == IF validationLeft.isValid THEN 0 ELSE Len(validationLeft.invalidLines)
                b     == IF validationRight.isValid THEN 0 ELSE Len(validationRight.invalidLines)
                empty == validationLeft.totalLines = 0 /\ validationRight.totalLines = 0
            IN  IF ~validationLeft.isValid \/ ~validationRight.isValid \/ empty
                THEN /\ sim.extras < maxExtras
                     /\ d.level = "lo"
                     /\ logs' = addLog(logs, Entry("error", "preflightFailed",
                                                   IF empty THEN "empty" ELSE "-", a, b, 0))
                     /\ sim' = [sim EXCEPT !.extras = @ + 1]
                     /\ UNCHANGED <<url, proxies, status, abortRef, aborted, unit, coord, atAbort>>
                ELSE /\ sim.runs < maxRuns
                     /\ d.level # "lo" => sim.draws < maxDraws
                     /\ sim' = [sim EXCEPT !.isProcessing = TRUE,
                                           !.proc = "calling",
                                           !.status = "Running",
                                           !.simulatedViews = sim.videoViews,
                                           !.viewHistory = <<Point(sim.ticks, sim.videoViews)>>,
                                           !.threads = d.threads,
                                           !.started = sim.ticks,
                                           !.cleared = FALSE,
                                           !.nonneg = TRUE,
                                           !.runs = @ + 1,
                                           !.draws = IF d.level = "lo" THEN @ ELSE @ + 1]
                     /\ logs' = addLog(logs, Entry("info", "initiatingInjection", "-", 0, 0, 0))
                     /\ UNCHANGED <<url, proxies, status, abortRef, aborted, unit, coord, atAbort>>

\* lines 521-525: generateContent resolved with a text of n lines
ProcReply(n) ==
    /\ sim.proc = "calling"
    /\ IF n = 0
       THEN /\ logs' = addLog(logs, Entry("success", "steadyState", "-", 0, 0, 0))
            /\ sim' = [sim EXCEPT !.proc = "none", !.isProcessing = FALSE]
       ELSE /\ logs' = logs
            /\ sim' = [sim EXCEPT !.proc = "lines", !.left = n]
    /\ UNCHANGED <<url, proxies, status, abortRef, aborted, unit, coord, atAbort>>

\* lines 526-532: the wait before a reply line is over; the line is logged,
\* as an error if it contains 'err'; after the last line the steady-state
\* entry is logged and finally clears isProcessing
ProcLine(type) ==
    /\ sim.proc = "lines"
    /\ LET lg == addLog(logs, Entry(type, "workerLine", "-", 0, 0, 0))
       IN  IF sim.left = 1
           THEN /\ logs' = addLog(lg, Entry("success", "steadyState", "-", 0, 0, 0))
                /\ sim' = [sim EXCEPT !.proc = "none", !.left = 0, !.isProcessing = FALSE]
           ELSE /\ logs' = lg
                /\ sim' = [sim EXCEPT !.left = @ - 1]
    /\ UNCHANGED <<url, proxies, status, abortRef, aborted, unit, coord, atAbort>>

\* line 532: generateContent rejected; catch logs, finally clears isProcessing
ProcFail ==
    /\ sim.proc = "calling"
    /\ logs' = addLog(logs, Entry("error", "communicationFailure", "-", 0, 0, 0))
    /\ sim' = [sim EXCEPT !.proc = "none", !.isProcessing = FALSE]
    /\ UNCHANGED <<url, proxies, status, abortRef, aborted, unit, coord, atAbort>>

\* mutant: the effect does not reset threads and successRate
handleStopBot_keepMetrics(maxExtras) ==
    /\ sim.status = "Running" \/ sim.extras < maxExtras
    /\ sim' = IF sim.status = "Running"
              THEN [sim EXCEPT !.status = "Connected"]
              ELSE [sim EXCEPT !.extras = @ + 1]
    /\ logs' = addLog(logs, Entry("warning", "emergencyShutdown", "-", 0, 0, 0))
    /\ UNCHANGED <<url, proxies, status, abortRef, aborted, unit, coord, atAbort>>

\* line 535 and the effect of lines 334-356 for a status that is not
\* 'Running': the interval is cleared, threads and successRate are reset
handleStopBot(maxExtras) ==
    /\ sim.status = "Running" \/ sim.extras < maxExtras
    /\ sim' = IF sim.status = "Running"
              THEN [sim EXCEPT !.status = "Connected", !.threads = 0, !.successRate = 100]
              ELSE [sim EXCEPT !.extras = @ + 1]
    /\ logs' = addLog(logs, Entry("warning", "emergencyShutdown", "-", 0, 0, 0))
    /\ UNCHANGED <<url, proxies, status, abortRef, aborted, unit, coord, atAbort>>

\* mutant: the history is not cut to its last 25 points
Tick_noSlice(d, maxTicks, maxDraws) ==
    /\ sim.status = "Running"
    /\ sim.ticks < maxTicks
    /\ d.level # "lo" => sim.draws < maxDraws
    /\ LET newVal == sim.simulatedViews + delta(sim.videoViews, sim.incrementPercentage, d.factor)
       IN  sim' = [sim EXCEPT
                     !.viewHistory = Append(@, Point(sim.ticks + 1, newVal)),
                     !.successRate = d.rate,
                     !.threads = Max(80, @ + d.step),
                     !.simulatedViews = newVal,
                     !.ticks = @ + 1,
                     !.nonneg = @ /\ sim.videoViews >= 0 /\ sim.incrementPercentage >= 0,
                     !.draws = IF d.level = "lo" THEN @ ELSE @ + 1]
    /\ UNCHANGED <<url, proxies, status, abortRef, aborted, unit, coord, logs, atAbort>>

\* mutant: a full history drops its newest point instead of its oldest
Tick_dropNewest(d, maxTicks, maxDraws) ==
    /\ sim.status = "Running"
    /\ sim.ticks < maxTicks
    /\ d.level # "lo" => sim.draws < maxDraws
    /\ LET newVal == sim.simulatedViews + delta(sim.videoViews, sim.incrementPercentage, d.factor)
           h      == sim.viewHistory
       IN  sim' = [sim EXCEPT
                     !.viewHistory = Append(IF Len(h) >= HistoryKeep
                                            THEN SubSeq(h, 1, HistoryKeep - 1) ELSE h,
                                            Point(sim.ticks + 1, newVal)),
                     !.successRate = d.rate,
                     !.threads = Max(80, @ + d.step),
                     !.simulatedViews = newVal,
                     !.ticks = @ + 1,
                     !.nonneg = @ /\ sim.videoViews >= 0 /\ sim.incrementPercentage >= 0,
                     !.draws = IF d.level = "lo" THEN @ ELSE @ + 1]
    /\ UNCHANGED <<url, proxies, status, abortRef, aborted, unit, coord, logs, atAbort>>

\* mutant: the increment is taken from the running total, not from videoViews
Tick_compound(d, maxTicks, maxDraws) ==
    /\ sim.status = "Running"
    /\ sim.ticks < maxTicks
    /\ d.level # "lo" => sim.draws < maxDraws
    /\ LET newVal == sim.simulatedViews + delta(sim.simulatedViews, sim.incrementPercentage, d.factor)
       IN  sim' = [sim EXCEPT
                     !.viewHistory = SliceLast(Append(@, Point(sim.ticks + 1, newVal)), HistoryKeep),
                     !.successRate = d.rate,
                     !.threads = Max(80, @ + d.step),
                     !.simulatedViews = newVal,
                     !.ticks = @ + 1,
                     !.nonneg = @ /\ sim.videoViews >= 0 /\ sim.incrementPercentage >= 0,
                     !.draws = IF d.level = "lo" THEN @ ELSE @ + 1]
    /\ UNCHANGED <<url, proxies, status, abortRef, aborted, unit, coord, logs, atAbort>>

\* lines 338-350: the interval callback
Tick(d, maxTicks, maxDraws) ==
    /\ sim.status = "Running"
    /\ sim.ticks < maxTicks
    /\ d.level # "lo" => sim.draws < maxDraws
    /\ LET newVal == sim.simulatedViews + delta(sim.videoViews, sim.incrementPercentage, d.factor)
       IN  sim' = [sim EXCEPT
                     !.viewHistory = SliceLast(Append(@, Point(sim.ticks + 1, newVal)), HistoryKeep),
                     !.successRate = d.rate,
                     !.threads = Max(80, @ + d.step),
                     !.simulatedViews = newVal,
                     !.ticks = @ + 1,
                     !.nonneg = @ /\ sim.videoViews >= 0 /\ sim.incrementPercentage >= 0,
                     !.draws = IF d.level = "lo" THEN @ ELSE @ + 1]
    /\ UNCHANGED <<url, proxies, status, abortRef, aborted, unit, coord, logs, atAbort>>

\* line 680: RESET DATA
ResetData ==
    /\ sim.viewHistory # <<>>
    /\ sim' = [sim EXCEPT !.viewHistory = <<>>, !.cleared = TRUE]
    /\ UNCHANGED <<url, proxies, status, abortRef, aborted, unit, coord, logs, atAbort>>

\* line 367
clearLogs ==
    /\ logs # <<>>
    /\ logs' = <<>>
    /\ UNCHANGED <<url, proxies, status, abortRef, aborted, unit, coord, atAbort, sim>>

\* mutant: an edit of the configuration sets the cumulative total to the new
\* videoViews
SetConfig_reseeds(v, p, d, maxEdits, maxDraws) ==
    /\ sim.edits < maxEdits
    /\ <<v, p>> # <<sim.videoViews, sim.incrementPercentage>>
    /\ v = sim.videoViews \/ p = sim.incrementPercentage
    /\ IF sim.status = "Running" THEN d.level # "lo" => sim.draws < maxDraws ELSE d.level = "lo"
    /\ sim' = [sim EXCEPT !.videoViews = v,
                          !.simulatedViews = v,
                          !.incrementPercentage = p,
                          !.threads = IF sim.status = "Running" THEN d.threads ELSE 0,
                          !.successRate = IF sim.status = "Running" THEN @ ELSE 100,
                          !.draws = IF d.level = "lo" THEN @ ELSE @ + 1,
                          !.edits = @ + 1]
    /\ UNCHANGED <<url, proxies, status, abortRef, aborted, unit, coord, logs, atAbort>>

\* lines 666, 670: the operator edits Target Batch or Velocity; the effect of
\* lines 334-356 depends on both, so it is run again: while the status is
\* 'Running' the interval is replaced and threads is drawn anew (d), otherwise
\* threads and successRate are reset
SetConfig(v, p, d, maxEdits, maxDraws) ==
    /\ sim.edits < maxEdits
    /\ <<v, p>> # <<sim.videoViews, sim.incrementPercentage>>
    /\ v = sim.videoViews \/ p = sim.incrementPercentage
    /\ IF sim.status = "Running" THEN d.level # "lo" => sim.draws < maxDraws ELSE d.level = "lo"
    /\ sim' = [sim EXCEPT !.videoViews = v,
                          !.incrementPercentage = p,
                          !.threads = IF sim.status = "Running" THEN d.threads ELSE 0,
                          !.successRate = IF sim.status = "Running" THEN @ ELSE 100,
                          !.draws = IF d.level = "lo" THEN @ ELSE @ + 1,
                          !.edits = @ + 1]
    /\ UNCHANGED <<url, proxies, status, abortRef, aborted, unit, coord, logs, atAbort>>

\* lines 598, 608: the operator edits a proxy list; no session of the sync
\* engine is running
SetProxies(x, text, maxEdits) ==
    /\ sim.edits < maxEdits
    /\ ~isSyncing
    /\ proxies[x] # text
    /\ proxies' = [proxies EXCEPT ![x] = text]
    /\ sim' = [sim EXCEPT !.edits = @ + 1,
                          !.typed = IF x = "A" THEN NoNumbers ELSE @]
    /\ UNCHANGED <<url, status, abortRef, aborted, unit, coord, logs, atAbort>>

\* ------------------------------------------------- the simulator's bounds
\* interval callbacks in one behaviour (SpecSim)
MaxTicks == 2
\* interval callbacks in one behaviour (SpecLong)
LongTicks == 30
\* accepted starts in one behaviour
MaxRuns == 2
\* random draws in one behaviour that are not the smallest
MaxDraws == 1
\* rejected starts and idle stops in one behaviour
MaxExtras == 1
\* operator edits of the configuration and of the proxy lists in one behaviour
MaxEdits == 1
\* lines of the reply logged by one handleStartBot call
MaxLines == 1

\* the values the operator types into Target Batch and Velocity
VideoViewsValues == {0, 3, videoViewsDefault}
PercentageValues == {-33, incrementPercentageDefault}
\* the texts the operator types into a proxy list
ProxyTexts == {<<>>, StoredLeft, StoredRight}
\* a Log Buffer of n entries of earlier rejected starts
PriorLogs(n) == [i \in 1..n |-> Entry("error", "preflightFailed", "empty", 0, 0, 0)]
PriorLogLengths == {0, LogKeep}

\* SpecSim: the run controls and the Metrics Simulator over a few ticks: up to
\* MaxRuns runs, with edits of the configuration and of the proxy lists; the
\* proxy lists are the empty ones of a fresh profile (lines 268-269), the
\* stored ones or two well-formed ones, and the reply of the worker has no
\* lines
InitSim ==
    /\ url = [x \in Side |-> ""]
    /\ proxies \in {[x \in Side |-> <<>>],
                    [x \in Side |-> StoredLeft],
                    [x \in Side |-> IF x = "A" THEN StoredLeft ELSE StoredRight]}
    /\ status = [x \in Side |-> "idle"]
    /\ abortRef = Null
    /\ aborted = [s \in Sessions |-> FALSE]
    /\ unit = [s \in Sessions |-> [x \in Side |-> UnitInit]]
    /\ coord = [s \in Sessions |-> "none"]
    /\ logs = <<>>
    /\ atAbort = [s \in Sessions |-> [pending |-> {}, waiting |-> {}]]
    /\ sim = SimInit

NextSim ==
    \/ \E d \in Draws : handleStartBot(d, MaxRuns, MaxDraws, MaxExtras)
    \/ ProcReply(0)
    \/ ProcFail
    \/ handleStopBot(MaxExtras)
    \/ \E d \in Draws : Tick(d, MaxTicks, MaxDraws)
    \/ ResetData
    \/ \E v \in VideoViewsValues, p \in PercentageValues, d \in Draws :
         SetConfig(v, p, d, MaxEdits, MaxDraws)
    \/ \E x \in Side, text \in ProxyTexts : SetProxies(x, text, MaxEdits)
SpecSim == InitSim /\ [][NextSim]_vars

\* SpecLong: one run of up to LongTicks ticks with well-formed proxy lists;
\* nothing is edited and every random number is the smallest one; the page
\* was used before, so the configuration may differ from the defaults and
\* the Log Buffer may already hold entries
InitLong ==
    /\ url = [x \in Side |-> ""]
    /\ proxies = [x \in Side |-> StoredLeft]
    /\ status = [x \in Side |-> "idle"]
    /\ abortRef = Null
    /\ aborted = [s \in Sessions |-> FALSE]
    /\ unit = [s \in Sessions |-> [x \in Side |-> UnitInit]]
    /\ coord = [s \in Sessions |-> "none"]
    /\ \E n \in PriorLogLengths : logs = PriorLogs(n)
    /\ atAbort = [s \in Sessions |-> [pending |-> {}, waiting |-> {}]]
    /\ \E v \in VideoViewsValues, p \in PercentageValues :
         sim = [SimInit EXCEPT !.videoViews = v, !.incrementPercentage = p]

NextLong ==
    \/ \E d \in Draws : handleStartBot(d, 1, 0, 0)
    \/ \E n \in 0..MaxLines : ProcReply(n)
    \/ \E type \in {"info", "error"} : ProcLine(type)
    \/ ProcFail
    \/ handleStopBot(0)
    \/ \E d \in Draws : Tick(d, LongTicks, 0)
    \/ ResetData
    \/ clearLogs
SpecLong == InitLong /\ [][NextLong]_vars

\* ------------------------------------------------ what the operator types
\* the largest octet and the largest port the operator writes (SpecValidate)
MaxOctet == 300
MaxPort == 65540
\* the number of lines of a typed text (SpecValidate)
MaxTextLines == 3
\* the largest number of zeros the operator puts before an octet
MaxPad == 3

\* the decimal numeral of n
RECURSIVE ToStr(_)
ToStr(n) == IF n < 10 THEN <<Digits[n + 1]>> ELSE ToStr(n \div 10) \o <<Digits[(n % 10) + 1]>>

\* the line a.b.c.d:port written from the numbers t
MkLine(t) ==
    LET Zeros(n)  == [i \in 1..n |-> "0"]
        MkOctet(j) == Zeros(t.pads[j]) \o ToStr(t.octets[j])
    IN  MkOctet(1) \o <<".">> \o MkOctet(2) \o <<".">> \o MkOctet(3) \o <<".">> \o MkOctet(4)
        \o <<":">> \o Zeros(t.zeros) \o ToStr(t.port)

\* the numbers of a line: four octets, the numbers of zeros put before them,
\* the port and the number of zeros put before it
NoPads == <<0, 0, 0, 0>>
Numbers(octets, pads, port, zeros) ==
    [octets |-> octets, pads |-> pads, port |-> port, zeros |-> zeros]
\* the octets with o at position i and b elsewhere
OctetAt(i, o, b) == [j \in 1..4 |-> IF j = i THEN o ELSE b]
\* z zeros before the octet at position i, none elsewhere
PadAt(i, z) == [j \in 1..4 |-> IF j = i THEN z ELSE 0]

\* the pieces the operator puts between newlines: lines that match and lines
\* that do not, with blanks around them, and blank pieces
Pieces ==
    {Line_1234_80, <<" ">> \o Line_9999_1 \o <<"\r">>, Line_oct256,
     <<"\t">> \o Line_junk \o <<" ">>, <<>>, <<" ", "\t">>}

\* the texts of up to MaxTextLines pieces
TypedTexts ==
    {JoinNL(ps) : ps \in UNION {[1..n -> Pieces] : n \in 0..MaxTextLines}}

\* the operator wrote list A as the one line of the numbers t and left list
\* B empty
WroteLine(t) ==
    /\ proxies = [x \in Side |-> IF x = "A" THEN MkLine(t) ELSE <<>>]
    /\ sim = [SimInit EXCEPT !.typed = t]

\* SpecValidate: the operator wrote list A, as a text of pieces or as one
\* line from numbers, left list B empty and clicks INITIATE BATCH, which
\* reads the validation of both lists.  The lines from numbers: every octet
\* value at every position next to octets 0 or 255, with the smallest and
\* the largest port; after a fixed address, every port written plain and the
\* ports up to MaxOctet written behind one zero; every octet value at every
\* position written behind 1..MaxPad zeros; and one address with up to two
\* zeros before each of its octets
InitValidate ==
    /\ url = [x \in Side |-> ""]
    /\ status = [x \in Side |-> "idle"]
    /\ abortRef = Null
    /\ aborted = [s \in Sessions |-> FALSE]
    /\ unit = [s \in Sessions |-> [x \in Side |-> UnitInit]]
    /\ coord = [s \in Sessions |-> "none"]
    /\ logs = <<>>
    /\ atAbort = [s \in Sessions |-> [pending |-> {}, waiting |-> {}]]
    /\ \/ \E text \in TypedTexts :
            /\ proxies = [x \in Side |-> IF x = "A" THEN text ELSE <<>>]
            /\ sim = SimInit
       \/ \E i \in 1..4, o \in 0..MaxOctet, b \in {0, 255}, q \in {1, 65535} :
            WroteLine(Numbers(OctetAt(i, o, b), NoPads, q, 0))
       \/ \E q \in 0..MaxPort :
            WroteLine(Numbers(<<192, 168, 0, 255>>, NoPads, q, 0))
       \/ \E q \in 0..MaxOctet :
            WroteLine(Numbers(<<192, 168, 0, 255>>, NoPads, q, 1))
       \/ \E i \in 1..4, o \in 0..MaxOctet, z \in 1..MaxPad, b \in {0, 255} :
            WroteLine(Numbers(OctetAt(i, o, b), PadAt(i, z), 80, 0))
       \/ \E ps \in [1..4 -> 0..2] :
            WroteLine(Numbers(<<1, 20, 0, 7>>, ps, 80, 0))

NextValidate ==
    \E d \in Draws : handleStartBot(d, 1, 0, 1)
SpecValidate == InitValidate /\ [][NextValidate]_vars

TypeOK ==
    /\ url \in [Side -> Urls]
    /\ status \in [Side -> SyncState]
    /\ abortRef \in {Null} \cup Sessions
    /\ aborted \in [Sessions -> BOOLEAN]
    /\ coord \in [Sessions -> CoordPc]
    /\ \A s \in Sessions, x \in Side :
          /\ unit[s][x].pc \in UnitPc
          /\ unit[s][x].attempt \in 0..maxRetries
          /\ unit[s][x].delays \in Seq(Nat) /\ Len(unit[s][x].delays) <= maxRetries
    /\ sim.status \in {"Connected", "Running"}
    /\ sim.isProcessing \in BOOLEAN /\ sim.proc \in ProcPc
    /\ sim.cleared \in BOOLEAN /\ sim.nonneg \in BOOLEAN
    /\ sim.isProcessing <=> (sim.proc # "none")
    /\ sim.videoViews \in Nat /\ sim.incrementPercentage \in Int
    /\ sim.simulatedViews \in Int /\ sim.threads \in Nat
    /\ \A i \in 1..Len(sim.viewHistory) : sim.viewHistory[i].views \in Int

\* =================================================================== claims
Busy(x) == status[x] \in {"syncing", "retrying"}
Pending(s, x) == unit[s][x].pc \in {"fetch", "body", "wait"}
Started(s) == coord[s] # "none"
\* s is the session started last
Latest(s) == Started(s) /\ \A t \in Sessions : t > s => ~Started(t)
\* positions in the Log Buffer of the entries msg that session s logged for side x
LogIdx(s, msg, x) ==
    {i \in 1..Len(logs) : logs[i].sess = s /\ logs[i].msg = msg /\ logs[i].side = x}
Stored(x) == IF x = "A" THEN StoredLeft ELSE StoredRight
Filtered(text) == JoinNL(FilterValid(TrimmedLines(text)))
TerminatedEntry(s) == Entry("warning", "manuallyTerminated", "-", 0, 0, s)

\* C1: when cancel() signals a session's token while a unit of the session has
\* not returned, the session is ended by the coordinator's cancellation branch
\* and by nothing else, the Log Buffer holds exactly one "manually terminated"
\* warning of that session once it has ended (none before), and every side
\* that was pending at the signal is idle once the session has ended and is
\* never error or success before.
C1_CancelOneWarningSidesIdle ==
    \A s \in Sessions :
        (aborted[s] /\ atAbort[s].pending # {}) =>
            /\ coord[s] \in {"awaiting", "cancelled"}
            /\ Cardinality(LogIdx(s, "manuallyTerminated", "-"))
                   = (IF coord[s] = "cancelled" THEN 1 ELSE 0)
            /\ \A i \in LogIdx(s, "manuallyTerminated", "-") : logs[i].type = "warning"
            /\ Latest(s) =>
                   \A x \in atAbort[s].pending :
                       IF coord[s] = "cancelled"
                       THEN status[x] = "idle"
                       ELSE status[x] \notin {"error", "success"}

\* C1 witness: a session cancelled while both units were pending has ended
C1_Witness ==
    \E s \in Sessions :
        /\ aborted[s] /\ atAbort[s].pending = Side
        /\ coord[s] = "cancelled"
        /\ Cardinality(LogIdx(s, "manuallyTerminated", "-")) = 1
        /\ \A x \in Side : status[x] = "idle"

\* C2: a unit of a session that was not cancelled and that returned a body
\* after k failed responses has k <= maxRetries, issued exactly k + 1 requests,
\* logged exactly k attempt-failed entries for its side, all of them warnings,
\* left its side in success and returned one of the bodies served.
C2_FailKThenSucceed ==
    \A s \in Sessions, x \in Side :
        LET u == unit[s][x]
        IN  (u.pc = "returned" /\ ~u.result.isNull /\ ~aborted[s]) =>
                /\ u.fails <= maxRetries
                /\ u.calls = u.fails + 1
                /\ Cardinality(LogIdx(s, "attemptFailed", x)) = u.fails
                /\ \A i \in LogIdx(s, "attemptFailed", x) : logs[i].type = "warning"
                /\ LogIdx(s, "terminalFailure", x) = {}
                /\ Latest(s) => status[x] = "success"
                /\ u.result.text \in Bodies

\* C2 witness: a unit succeeded on its last allowed attempt
C2_Witness ==
    \E s \in Sessions, x \in Side :
        /\ unit[s][x].pc = "returned" /\ ~unit[s][x].result.isNull /\ ~aborted[s]
        /\ unit[s][x].fails = maxRetries
        /\ status[x] = "success"

\* C3: a unit that was called with a URL and returned null issued exactly
\* maxRetries + 1 requests, all of which failed, logged one warning per failed
\* attempt and exactly one error, which follows all its warnings, and left its
\* side in error; and no error entry of a side exists unless that side's unit
\* has failed maxRetries + 1 times.
C3_AlwaysFailing ==
    \A s \in Sessions, x \in Side :
        LET u        == unit[s][x]
            warnings == LogIdx(s, "attemptFailed", x)
            errors   == {i \in 1..Len(logs) :
                            logs[i].sess = s /\ logs[i].side = x /\ logs[i].type = "error"}
        IN  /\ (u.pc = "returned" /\ u.result.isNull /\ u.url # "") =>
                   /\ u.calls = maxRetries + 1
                   /\ u.fails = maxRetries + 1
                   /\ Cardinality(warnings) = maxRetries + 1
                   /\ Cardinality(errors) = 1
                   /\ \A i \in warnings, j \in errors : i < j
                   /\ Latest(s) => status[x] = "error"
            /\ \A i \in warnings : logs[i].type = "warning"
            /\ errors # {} => (u.pc = "returned" /\ u.result.isNull /\ u.fails = maxRetries + 1)

\* C3 witness: a unit has given up after its last attempt
C3_Witness ==
    \E s \in Sessions, x \in Side :
        /\ unit[s][x].pc = "returned" /\ unit[s][x].result.isNull
        /\ unit[s][x].calls = maxRetries + 1
        /\ status[x] = "error"

\* C4: at most one handleSyncFromUrls call is waiting for its units at any
\* time; a click on Synchronize made while a side is syncing or retrying
\* changes nothing; and no step taken while a side is syncing or retrying
\* starts a session, installs another session's AbortController or issues
\* the first request of any unit.
C4_OneSessionAtATime ==
    /\ [](Cardinality({s \in Sessions : coord[s] = "awaiting"}) <= 1)
    /\ [][(\E x \in Side : Busy(x)) =>
            /\ handleSyncFromUrls(MaxSessions, 0) => UNCHANGED vars
            /\ \A s \in Sessions : ~Started(s) =>
                   /\ ~Started(s)'
                   /\ \A x \in Side : unit'[s][x] = unit[s][x]
            /\ abortRef' \in {abortRef, Null}]_vars

\* C4 witness: a session is under way, cancel() has been signalled, a unit
\* is still in its backoff delay, and a URL is there for another click
C4_Witness ==
    \E s \in Sessions, x \in Side :
        /\ coord[s] = "awaiting" /\ aborted[s]
        /\ unit[s][x].pc = "wait" /\ Busy(x)
        /\ url[x] # ""
        /\ \E t \in Sessions : ~Started(t)

C6_BackoffEndsAtCancel ==
    \A s \in Sessions :
        (aborted[s] /\ atAbort[s].waiting # {}) =>
            /\ coord[s] = "cancelled"
            /\ Latest(s) => \A x \in atAbort[s].waiting : ~Busy(x)

\* C7: in a step taken after a session's token was signalled, no unit of that
\* session issues a request; and if a unit of that session moves, no proxy
\* list changes and the Log Buffer and the SourceStates change only by the
\* coordinator's cancellation branch (one "manually terminated" warning,
\* busy sides to idle), and only if that step ends the session.
C7_NoUnitActsAfterSignal ==
    [][\A s \in Sessions :
          aborted[s] =>
              /\ \A x \in Side :
                     /\ unit'[s][x].calls = unit[s][x].calls
                     /\ unit'[s][x].pc = "fetch" => unit[s][x].pc = "fetch"
              /\ unit'[s] # unit[s] =>
                     /\ proxies' = proxies
                     /\ IF coord'[s] # coord[s]
                        THEN /\ coord'[s] = "cancelled"
                             /\ logs' = Append(logs, TerminatedEntry(s))
                             /\ \A y \in Side :
                                    status'[y] = IF Busy(y) THEN "idle" ELSE status[y]
                        ELSE /\ logs' = logs
                             /\ status' = status]_vars

\* C7 witness: a unit woke from its backoff delay and threw after a newer
\* session had been started
C7_Witness ==
    \E s \in Sessions, x \in Side :
        /\ unit[s][x].pc = "thrown"
        /\ unit[s][x].late = "newer"
        /\ x \in atAbort[s].waiting

\* C8 (as claimed): after a session in which both units returned, the proxy
\* list of every side whose unit returned non-null content is the filtered
\* content.
C8_EveryNonNullContentReplaces ==
    \A s \in Sessions :
        (coord[s] = "aggregated" /\ Latest(s)) =>
            \A x \in Side :
                ~unit[s][x].result.isNull => proxies[x] = Filtered(unit[s][x].result.text)

\* C9: in the first session, the unit of a side whose URL is empty has
\* returned null without a request, nothing was logged for that side, its
\* SourceState is still idle and its proxy list is still the stored one; if
\* the session was aggregated and the other side returned content, no error
\* was logged and the other side's list is the filtered content whenever
\* that content is not the empty string.
C9_EmptyUrlSideUntouched ==
    \A s \in Sessions, x \in Side :
        (Started(s) /\ unit[s][x].url = "") =>
            LET o == unit[s][Other(x)]
            IN  /\ unit[s][x].pc = "returned"
                /\ unit[s][x].result.isNull
                /\ unit[s][x].calls = 0
                /\ \A i \in 1..Len(logs) : logs[i].sess = s => logs[i].side # x
                /\ status[x] = "idle"
                /\ proxies[x] = Stored(x)
                /\ (coord[s] = "aggregated" /\ ~o.result.isNull) =>
                       /\ \A i \in 1..Len(logs) : logs[i].sess = s => logs[i].type # "error"
                       /\ Truthy(o.result) => proxies[Other(x)] = Filtered(o.result.text)
                       /\ status[Other(x)] = "success"

\* C9 witness: side B had no URL, side A's content was aggregated
C9_Witness ==
    \E s \in Sessions :
        /\ coord[s] = "aggregated"
        /\ unit[s]["B"].url = ""
        /\ unit[s]["A"].result = Content(BodyMixed)
        /\ proxies["A"] = Filtered(BodyMixed)
        /\ proxies["B"] = StoredRight

\* C10: a click on Synchronize made while both URLs are empty and neither
\* side is syncing or retrying appends exactly one error entry and changes
\* nothing else; no AbortController is installed.
C10_NoEndpointsOnlyLogs ==
    [][(urlA = "" /\ urlB = "" /\ ~(\E x \in Side : Busy(x))
          /\ handleSyncFromUrls(1, MaxRejected)) =>
            /\ logs' = Append(logs, Entry("error", "noEndpoints", "-", 0, 0, 0))
            /\ abortRef = Null /\ abortRef' = Null
            /\ UNCHANGED <<url, proxies, status, aborted, unit, coord, atAbort, sim>>]_vars

\* C10 witness: the click was rejected on a page that never synchronized
C10_Witness ==
    /\ Rejected = 1
    /\ logs = <<Entry("error", "noEndpoints", "-", 0, 0, 0)>>
    /\ \A s \in Sessions : ~Started(s)
    /\ abortRef = Null
    /\ \A x \in Side : status[x] = "idle" /\ proxies[x] = Stored(x)

\* a step in which session s starts
Starts(s) == ~Started(s) /\ Started(s)'

\* C11 (as stated): in the latest session a side that was called with the
\* empty URL does not show the success or error of an earlier session.
C11_StartResetsTerminal ==
    \A s \in Sessions, x \in Side :
        (Latest(s) /\ unit[s][x].url = "") => status[x] \notin {"success", "error"}

\* C11 (amended): the step that starts a session sets a side with a
\* non-empty URL to syncing and leaves the state of a side with the empty
\* URL as the earlier session left it, success and error included.
C11_StartKeepsEmptyUrlSide ==
    [][\A s \in Sessions : Starts(s) =>
          \A x \in Side :
              status'[x] = IF url[x] # "" THEN "syncing" ELSE status[x]]_vars

\* C11 witness: the second session runs for one side only while the other
\* side still shows the success of the first
C11_Witness ==
    \E s \in Sessions, x \in Side :
        /\ s > 1 /\ Latest(s) /\ coord[s] = "awaiting"
        /\ unit[s][x].url = "" /\ unit[s][Other(x)].url # ""
        /\ unit[s - 1][x].result = Content(BodyMixed)
        /\ status[x] = "success"

\* the SourceState a returned unit left: error for null, success for a body
Terminal(s, x) == IF unit[s][x].result.isNull THEN "error" ELSE "success"

\* C12 (as stated): after the coordinator has handled a cancellation both
\* sides are idle, a side that had reached success or error included.
C12_CancelAllSidesIdle ==
    \A s \in Sessions :
        (Latest(s) /\ coord[s] = "cancelled") => \A x \in Side : status[x] = "idle"

\* C12 (amended): after the coordinator has handled a cancellation, a side
\* whose unit had not returned is idle, and a side whose unit had already
\* returned keeps the success or error it reached in that session.
C12_CancelKeepsTerminal ==
    \A s \in Sessions, x \in Side :
        (Latest(s) /\ coord[s] = "cancelled" /\ unit[s][x].url # "") =>
            status[x] = IF unit[s][x].pc = "returned" THEN Terminal(s, x) ELSE "idle"

\* C12 witness: a session cancelled after side A had reached success and
\* while side B's request was in flight
C12_Witness ==
    \E s \in Sessions :
        /\ Latest(s) /\ coord[s] = "cancelled"
        /\ unit[s]["A"].pc = "returned" /\ unit[s]["A"].result = Content(BodyMixed)
        /\ unit[s]["B"].pc = "thrown" /\ "B" \in atAbort[s].pending
        /\ status["A"] = "success" /\ status["B"] = "idle"

\* C13: a side in idle, success or error changes state only in the step that
\* starts a session with a non-empty URL for that side, and then to syncing
\* with its first request issued; every other step (a cancel click, a
\* response or timer of any unit, a session started with that side's URL
\* empty, an edit of a URL) leaves it as it is.
C13_SettledSideStable ==
    [][\A x \in Side :
          (status[x] \in {"idle", "success", "error"} /\ status'[x] # status[x]) =>
              /\ status'[x] = "syncing"
              /\ \E s \in Sessions :
                    /\ Starts(s)
                    /\ url[x] # ""
                    /\ unit'[s][x].url = url[x]
                    /\ unit'[s][x].pc = "fetch" /\ unit'[s][x].calls = 1]_vars

\* C13 witness: side A kept the success of the first session through the
\* start, the cancellation and the late AbortError of a second session that
\* ran for side B only
C13_Witness ==
    \E s \in Sessions :
        /\ s > 1 /\ coord[s] = "cancelled"
        /\ unit[s]["A"].url = "" /\ unit[s]["B"].pc = "thrown"
        /\ unit[s - 1]["A"].result = Content(BodyMixed)
        /\ status["A"] = "success" /\ status["B"] = "idle"

\* no handleSyncFromUrls call is waiting for its units
NoSessionActive == \A s \in Sessions : coord[s] # "awaiting"

\* C14: a click on Cancel made while no session is active (before the first
\* session, after one completed, after one was cancelled and handled)
\* changes nothing: no log entry, no SourceState, no proxy list, no token;
\* and a session started later begins with its own token not signalled: a
\* token is signalled only after its session started.
C14_IdleCancelIsNoOp ==
    /\ [](\A s \in Sessions : aborted[s] => Started(s))
    /\ [][(NoSessionActive /\ handleCancelSync) => UNCHANGED vars]_vars
    /\ [][\A s \in Sessions : Starts(s) => (~aborted'[s] /\ abortRef' = s)]_vars

\* C14 witness: after a cancelled and handled session (no controller
\* installed, so a cancel click can only be the no-op) a later session runs
\* with its token not signalled
C14_Witness ==
    \E s \in Sessions :
        /\ s > 1 /\ coord[s - 1] = "cancelled" /\ aborted[s - 1]
        /\ coord[s] = "awaiting" /\ ~aborted[s] /\ abortRef = s

\* C15: in a session called with both URLs non-empty the first request of
\* each side has been issued from the start, before any response is
\* handled; after that the two units move in separate steps: a response or
\* a timer handled by one side's unit leaves the other side's unit, and the
\* other side's SourceState unless the session ends in that step, as they
\* are, so neither side's attempts wait for the other's.
C15_UnitsRunConcurrently ==
    /\ [](\A s \in Sessions :
            (Started(s) /\ \A x \in Side : unit[s][x].url # "") =>
                \A x \in Side : unit[s][x].calls >= 1)
    /\ [][\A s \in Sessions, x \in Side :
            (Started(s) /\ ~(aborted'[s] /\ ~aborted[s])
               /\ unit'[s][x] # unit[s][x]) =>
                /\ unit'[s][Other(x)] = unit[s][Other(x)]
                /\ coord'[s] = "awaiting" => status'[Other(x)] = status[Other(x)]]_vars

\* C15 witness: side B has reached success while side A, after two failed
\* attempts, has its third request in flight
C15_Witness ==
    \E s \in Sessions :
        /\ coord[s] = "awaiting"
        /\ unit[s]["A"].pc = "fetch" /\ unit[s]["A"].attempt = 2
        /\ status["A"] = "retrying"
        /\ unit[s]["B"].pc = "returned" /\ unit[s]["B"].calls = 1
        /\ status["B"] = "success"

\* C16: within a session no proxy list is replaced before both units have
\* returned: a step changes a proxy list only if it is the step in which the
\* session's coordinator aggregates, with both units returned; so while a
\* side is syncing or retrying in the first session both lists are still
\* the stored ones, even if the other side already reached success.
C16_NoReplaceBeforeBothReturn ==
    /\ [](\A s \in Sessions :
            (Latest(s) /\ s = 1 /\ coord[s] = "awaiting") =>
                \A y \in Side : proxies[y] = Stored(y))
    /\ [][proxies' # proxies =>
            \E s \in Sessions :
                /\ coord[s] = "awaiting" /\ coord'[s] = "aggregated"
                /\ \A x \in Side : unit'[s][x].pc = "returned"
                /\ \A x \in Side : ~Busy(x)']_vars

\* C16 witness: side A has reached success with a body that differs from
\* its stored list, side B is still retrying, and both lists are the stored
\* ones
C16_Witness ==
    \E s \in Sessions :
        /\ coord[s] = "awaiting"
        /\ unit[s]["A"].pc = "returned" /\ unit[s]["A"].result = Content(BodyMixed)
        /\ status["A"] = "success" /\ status["B"] = "retrying"
        /\ Filtered(BodyMixed) # Stored("A")
        /\ \A y \in Side : proxies[y] = Stored(y)

\* the session ended with a failure: cancelled, or a unit called with a URL
\* returned null after its last attempt
EndedByFailure(s) ==
    \/ coord[s] = "cancelled"
    \/ /\ coord[s] = "aggregated"
       /\ \E x \in Side : unit[s][x].url # "" /\ unit[s][x].result.isNull

ErrorIdx(s) == {i \in 1..Len(logs) : logs[i].sess = s /\ logs[i].type = "error"}

\* C18 (as stated): a session that ended by cancellation has logged no
\* error-severity entry.
C18_CancelledSessionLogsNoError ==
    \A s \in Sessions : coord[s] = "cancelled" => ErrorIdx(s) = {}

\* C18 (amended): a cancellation is never treated as a retry failure.  For
\* a side whose unit had not returned when the token was signalled: the
\* unit never returns, the side never moves to error or success, no
\* terminal-failure entry is logged for it, and its per-attempt warnings
\* are those of the attempts that failed before the signal (the index of the
\* interrupted attempt, or one more for a unit interrupted in its backoff).
\* The only error-severity entries of a cancelled session are the
\* terminal-failure entries of a side whose unit had returned null before
\* the signal.
C18_CancelIsNoRetryFailure ==
    \A s \in Sessions :
        aborted[s] =>
            /\ \A x \in atAbort[s].pending :
                  /\ unit[s][x].pc \in {"thrown", "wait"}
                  /\ Latest(s) => status[x] \notin {"error", "success"}
                  /\ LogIdx(s, "terminalFailure", x) = {}
                  /\ Cardinality(LogIdx(s, "attemptFailed", x)) =
                         unit[s][x].attempt + (IF x \in atAbort[s].waiting THEN 1 ELSE 0)
            /\ \A i \in ErrorIdx(s) :
                  /\ logs[i].msg = "terminalFailure"
                  /\ logs[i].side \in Side \ atAbort[s].pending

\* C18 witness: side A failed on all attempts and its error entry is in the
\* log; then the session was cancelled while the second request of side B
\* was in flight
C18_Witness ==
    \E s \in Sessions :
        /\ coord[s] = "cancelled"
        /\ atAbort[s].pending = {"B"} /\ atAbort[s].waiting = {}
        /\ unit[s]["B"].pc = "thrown" /\ unit[s]["B"].attempt = 1
        /\ Cardinality(LogIdx(s, "attemptFailed", "B")) = 1
        /\ LogIdx(s, "terminalFailure", "A") # {}
        /\ status["A"] = "error" /\ status["B"] = "idle"

\* the first n elements of a sequence
Prefix(seq, n) == SubSeq(seq, 1, n)

AggregationEntries(s, x) ==
    SelectSeq(logs, LAMBDA e : e.sess = s /\ e.side = x
                               /\ e.msg \in {"noValidLines", "syncComplete"})

\* C20: once a session has aggregated, every side whose content the forEach
\* processed (content that is not null and not the empty string) has exactly
\* one aggregation entry: the warning, with the number of non-empty lines,
\* when the content has a non-empty line and no line matches PROXY_REGEX;
\* otherwise the success entry with validCount/totalCount.  A side without
\* such content has none, and nothing is logged before the aggregation.
C20_OneAggregationEntryPerSide ==
    \A s \in Sessions, x \in Side :
        LET r     == unit[s][x].result
            total == Len(TrimmedLines(r.text))
            valid == Len(FilterValid(TrimmedLines(r.text)))
        IN  IF coord[s] = "aggregated" /\ Truthy(r)
            THEN AggregationEntries(s, x) =
                    IF total > 0 /\ valid = 0
                    THEN <<Entry("warning", "noValidLines", x, 0, total, s)>>
                    ELSE <<Entry("success", "syncComplete", x, valid, total, s)>>
            ELSE AggregationEntries(s, x) = <<>>

\* C20 witness: side A fetched two lines none of which is valid and got the
\* warning; side B fetched four lines, three of them valid, and got the
\* success entry 3/4
C20_Witness ==
    \E s \in Sessions :
        /\ coord[s] = "aggregated"
        /\ unit[s]["A"].result = Content(BodyBad)
        /\ unit[s]["B"].result = Content(BodyMixed)
        /\ AggregationEntries(s, "A") = <<Entry("warning", "noValidLines", "A", 0, 2, s)>>
        /\ AggregationEntries(s, "B") = <<Entry("success", "syncComplete", "B", 3, 4, s)>>

\* ------------------------------------------- the simulator and its buffers
\* C21: in every reachable state the History Buffer holds at most 25 points
\* and the Log Buffer holds at most 100 entries
C21_BuffersBounded ==
    /\ Len(sim.viewHistory) <= 25
    /\ Len(logs) <= 100

\* C21 witness: both buffers are full and went on being written: the run
\* has ticked 30 times, and the start and the stop were logged into a Log
\* Buffer that already held 99 entries
C21_Witness ==
    /\ Len(sim.viewHistory) = 25 /\ sim.ticks = 30
    /\ Len(logs) = 100
    /\ logs[99].msg = "initiatingInjection" /\ logs[100].msg = "emergencyShutdown"

\* a step is a tick: the interval callback ran
IsTick == sim'.ticks = sim.ticks + 1

\* C22: a tick appends the new point at the end of the History Buffer; a
\* buffer of 25 points loses exactly its oldest point and the other 24 keep
\* their order, and a buffer of fewer than 25 points loses nothing
C22_TickAppendsEvictsOldest ==
    [][IsTick =>
         LET h  == sim.viewHistory
             h2 == sim'.viewHistory
         IN  /\ h2 # <<>>
             /\ h2[Len(h2)].time = sim'.ticks
             /\ \A i \in 1..Len(h) : h[i].time # sim'.ticks
             /\ IF Len(h) = 25
                THEN /\ Len(h2) = 25
                     /\ \A i \in 1..24 : h2[i] = h[i + 1]
                ELSE /\ Len(h2) = Len(h) + 1
                     /\ \A i \in 1..Len(h) : h2[i] = h[i]]_vars

\* C22 witness: a tick has just evicted from a full buffer; the buffer holds
\* the points of the last 25 ticks, oldest first
C22_Witness ==
    /\ sim.ticks = 27
    /\ Len(sim.viewHistory) = 25
    /\ \A i \in 1..25 : sim.viewHistory[i].time = i + 2

\* a run was started, 30 ticks have passed since, and RESET DATA was not
\* clicked in between
ThirtyTicksNoClear ==
    /\ sim.runs >= 1
    /\ sim.ticks - sim.started = 30
    /\ ~sim.cleared

C24_TickIncrement ==
    [][IsTick =>
         LET inc == sim'.simulatedViews - sim.simulatedViews
             q   == sim.videoViews * sim.incrementPercentage
             h2  == sim'.viewHistory
         IN  /\ \E r \in 80..120 : 10000 * inc <= q * r /\ q * r < 10000 * (inc + 1)
             /\ h2[Len(h2)].views = sim'.simulatedViews
             /\ (/\ sim.videoViews = 100000 /\ sim.incrementPercentage = 33
                 /\ sim.edits = 0 /\ sim.ticks = sim.started)
                => sim'.simulatedViews \in 126400..139600]_vars

\* C24 witness: the first tick of a run with the default configuration drew
\* the largest factor: the total is 139600 and so is the appended point
C24_Witness ==
    /\ sim.videoViews = 100000 /\ sim.incrementPercentage = 33 /\ sim.edits = 0
    /\ sim.ticks = sim.started + 1
    /\ sim.simulatedViews = 139600
    /\ sim.viewHistory = <<Point(sim.started, 100000), Point(sim.ticks, 139600)>>

\* a step is an accepted start of a run
IsAcceptedStart == sim'.runs = sim.runs + 1

\* C25: an accepted start sets the cumulative total to the configured
\* videoViews and replaces the History Buffer, whatever it held, with exactly
\* one point whose value is videoViews
C25_StartSeedsTotalAndHistory ==
    [][IsAcceptedStart =>
         /\ sim'.videoViews = sim.videoViews
         /\ sim'.simulatedViews = sim.videoViews
         /\ Len(sim'.viewHistory) = 1
         /\ sim'.viewHistory[1].views = sim.videoViews
         /\ sim'.status = "Running"]_vars

\* C25 witness: the second run has just been started after a first run that
\* ticked and was not cleared, with a total that differed from videoViews
C25_Witness ==
    /\ sim.runs = 2 /\ sim.started = sim.ticks /\ sim.ticks >= 1 /\ ~sim.cleared
    /\ sim.videoViews = 100000 /\ sim.incrementPercentage = 33 /\ sim.edits = 0
    /\ sim.simulatedViews = 100000
    /\ sim.viewHistory = <<Point(sim.ticks, 100000)>>

\* the last entry of the Log Buffer
LastLog(lg) == lg[Len(lg)]

\* a step is a click on RESET DATA
IsResetData == sim'.cleared /\ sim'.viewHistory = <<>> /\ sim.viewHistory # <<>>

\* C26: while the run is stopped the thread count is 0 and the success rate
\* is 100; no step between two states in which the run is stopped is a tick
\* or changes the cumulative total, and none changes the History Buffer
\* except the operator's RESET DATA; this includes a further handleStopBot
C26_StoppedSimulatorIsQuiet ==
    /\ [](sim.status # "Running" => sim.threads = 0 /\ sim.successRate = 100)
    /\ [][(sim.status # "Running" /\ sim'.status # "Running") =>
            /\ sim'.ticks = sim.ticks
            /\ sim'.simulatedViews = sim.simulatedViews
            /\ sim'.viewHistory = sim.viewHistory \/ IsResetData]_vars
    /\ [][(sim.status = "Running" /\ sim'.status # "Running") =>
            /\ sim'.ticks = sim.ticks
            /\ sim'.simulatedViews = sim.simulatedViews
            /\ sim'.viewHistory = sim.viewHistory]_vars

\* C26 witness: a run that ticked was stopped and handleStopBot ran once
\* more: the metrics are reset, the total and the history are those of the
\* last tick
C26_Witness ==
    /\ sim.status = "Connected" /\ sim.runs = 1 /\ sim.ticks = 2 /\ sim.extras = 1
    /\ sim.threads = 0 /\ sim.successRate = 100
    /\ Len(logs) >= 2
    /\ logs[Len(logs)].msg = "emergencyShutdown" /\ logs[Len(logs) - 1].msg = "emergencyShutdown"
    /\ Len(sim.viewHistory) = 3
    /\ sim.viewHistory[3].views = sim.simulatedViews
    /\ sim.simulatedViews # sim.videoViews

\* a step is a start request that was rejected by the pre-flight validation
IsRejectedStart ==
    /\ sim'.extras = sim.extras + 1
    /\ logs' # <<>> /\ LastLog(logs').msg = "preflightFailed"

\* C27: while a proxy list has a malformed line no start request is accepted,
\* and a start request appends exactly one error entry to the Log Buffer and
\* changes nothing else: the status, the cumulative total, the History
\* Buffer and the proxy lists stay as they are
C27_MalformedStartOnlyLogs ==
    [][(~validationLeft.isValid \/ ~validationRight.isValid) =>
         /\ ~IsAcceptedStart
         /\ IsRejectedStart =>
              /\ Len(logs') = Len(logs) + 1
              /\ SubSeq(logs', 1, Len(logs)) = logs
              /\ LastLog(logs').type = "error"
              /\ sim' = [sim EXCEPT !.extras = sim.extras + 1]
              /\ sim'.status # "Running"
              /\ UNCHANGED <<url, proxies, status, abortRef, aborted, unit, coord, atAbort>>]_vars

\* C27 witness: after a run that ticked and was stopped, list B got a
\* malformed line and the start request was rejected with one entry naming
\* one malformed entry of B; the history of the run is still there
C27_Witness ==
    /\ sim.runs = 1 /\ sim.extras = 1 /\ sim.status = "Connected"
    /\ ~validationRight.isValid /\ validationLeft.isValid
    /\ logs # <<>> /\ LastLog(logs) = Entry("error", "preflightFailed", "-", 0, 1, 0)
    /\ Len(sim.viewHistory) >= 2
    /\ sim.simulatedViews # sim.videoViews

\* ------------------------------------------------------------ the validator
\* the pieces of text between newlines, each named by the position before
\* its first character, that have a character which is not white space
NonBlankPieces(text) ==
    {b \in {0} \cup {i \in 1..Len(text) : text[i] = NL} :
        \E i \in (b + 1)..Len(text) :
            /\ ~IsSpace(text[i])
            /\ \A j \in (b + 1)..i : text[j] # NL}

\* C28: for the text of list A, isValid is true exactly when invalidLines is
\* empty, totalLines is the number of pieces that are not blank, invalidLines
\* is the subsequence, in order, of the trimmed non-empty lines that do not
\* match PROXY_REGEX, and a text of white space only is valid with
\* totalLines 0
C28_ValidationResult ==
    LET text == proxiesLeft
        v    == validationLeft
    IN  /\ v.isValid <=> (v.invalidLines = <<>>)
        /\ v.totalLines = Cardinality(NonBlankPieces(text))
        /\ v.invalidLines = SelectSeq(TrimmedLines(text), LAMBDA l : ~PROXY_REGEX(l))
        /\ (\A i \in 1..Len(text) : IsSpace(text[i]))
              => v = [isValid |-> TRUE, invalidLines |-> <<>>, totalLines |-> 0]

\* C28 witness: list A holds a malformed line, a well-formed one and the
\* malformed one again; the start request was rejected for 2 malformed
\* entries of 3 lines
C28_Witness ==
    /\ proxiesLeft = Line_oct256 \o <<NL>> \o Line_1234_80 \o <<NL>> \o Line_oct256
    /\ validationLeft.totalLines = 3
    /\ validationLeft.invalidLines = <<Line_oct256, Line_oct256>>
    /\ logs = <<Entry("error", "preflightFailed", "-", 2, 0, 0)>>

\* C29: a line a.b.c.d:port written from numbers, the octets as plain
\* decimal numerals (no zeros put before them), is valid exactly when every octet is at most 255, the
\* port is from 1 to 65535 and the port is written without a leading zero
C29_OctetAndPortRanges ==
    LET t == sim.typed
    IN  (t # NoNumbers /\ t.pads = NoPads) =>
          (validationLeft.isValid <=>
              /\ \A i \in 1..4 : t.octets[i] \in 0..255
              /\ t.port \in 1..65535
              /\ t.zeros = 0)

\* C29 witness: the line 255.255.255.255:65535 passed the pre-flight check
\* and the run was started
C29_Witness ==
    /\ sim.typed = [octets |-> <<255, 255, 255, 255>>, pads |-> NoPads, port |-> 65535, zeros |-> 0]
    /\ validationLeft = [isValid |-> TRUE, invalidLines |-> <<>>, totalLines |-> 1]
    /\ sim.status = "Running"

\* C30: a session that ended by cancellation has modified neither proxy
\* list (in Spec the session is the first one, so the lists are the stored
\* ones), and a side of it whose unit had returned content keeps the state
\* success, whatever the content would have made of its list
C30_CancelledSessionKeepsLists ==
    \A s \in Sessions :
        coord[s] = "cancelled" =>
            /\ \A y \in Side : proxies[y] = Stored(y)
            /\ \A x \in Side :
                 (unit[s][x].pc = "returned" /\ ~unit[s][x].result.isNull) => status[x] = "success"

\* C30 witness: the session was cancelled after side A had returned a body
\* whose valid lines differ from the stored list; list A is the stored one,
\* side A is success and the cancellation was logged after A's success
C30_Witness ==
    \E s \in Sessions :
        /\ coord[s] = "cancelled" /\ aborted[s]
        /\ unit[s]["A"].pc = "returned" /\ unit[s]["A"].result = Content(BodyMixed)
        /\ unit[s]["B"].pc = "thrown"
        /\ Filtered(BodyMixed) # Stored("A")
        /\ proxies["A"] = Stored("A") /\ proxies["B"] = Stored("B")
        /\ status["A"] = "success"
        /\ logs[Len(logs)] = TerminatedEntry(s)

\* ------------------------------------------------ the state machine of a side
\* the changes of a side's state the claim lists
AllowedChanges ==
    ({"idle", "success", "error"} \X {"syncing"})
    \cup {<<"syncing", "retrying">>, <<"syncing", "success">>,
          <<"retrying", "success">>, <<"retrying", "error">>,
          <<"syncing", "idle">>, <<"retrying", "idle">>}

\* C31: every change of a side's state is one of idle/success/error to
\* syncing (and then a session starts with that side's first attempt),
\* syncing to retrying, syncing or retrying to success, retrying to error,
\* syncing or retrying to idle (and then the session's token is signalled);
\* no side is ever cancelled
C31_SideStateMachine ==
    /\ [](\A x \in Side : status[x] # "cancelled")
    /\ [][\A x \in Side :
            status'[x] # status[x] =>
                /\ <<status[x], status'[x]>> \in AllowedChanges
                /\ status'[x] = "syncing" =>
                     \E s \in Sessions :
                        Starts(s) /\ unit'[s][x].attempt = 0 /\ unit'[s][x].pc = "fetch"
                /\ status'[x] = "idle" =>
                     \E s \in Sessions :
                        aborted'[s] /\ coord[s] = "awaiting" /\ coord'[s] = "cancelled"]_vars

\* C31 witness: side A used up its four attempts in the first session and
\* went from retrying to error; the second session took it from error to
\* syncing
C31_Witness ==
    /\ coord[1] = "aggregated" /\ coord[2] = "awaiting"
    /\ unit[1]["A"].fails = 4 /\ unit[1]["A"].result.isNull
    /\ LogIdx(1, "terminalFailure", "A") # {}
    /\ unit[2]["A"].pc = "fetch" /\ unit[2]["A"].attempt = 0
    /\ status["A"] = "syncing"

\* the session has ended, no side is syncing or retrying and the token is
\* cleared
EndedClean(s) ==
    /\ coord[s] \in {"aggregated", "cancelled"}
    /\ \A x \in Side : ~Busy(x)
    /\ abortRef = Null

\* C32: with a fair environment every started session leads to a state in
\* which it has ended, no side is syncing or retrying and the token is
\* cleared, whether or not Cancel is clicked; and no unit ever issues more
\* than maxRetries + 1 requests
C32_SessionTerminates ==
    /\ [](\A s \in Sessions, x \in Side : unit[s][x].calls <= 4)
    /\ \A s \in Sessions : Started(s) ~> EndedClean(s)

\* C32 witness: Cancel was clicked while side A was in a backoff and side B
\* had returned; the timer fired, the unit threw and the session ended
\* cancelled with side A idle and the token cleared
C32_Witness ==
    /\ coord[1] = "cancelled" /\ EndedClean(1)
    /\ atAbort[1].waiting = {"A"}
    /\ unit[1]["A"].pc = "thrown" /\ unit[1]["B"].pc = "returned"
    /\ status["A"] = "idle"

\* the lines of a fetched content that match PROXY_REGEX, in the order of the
\* content
MatchingLines(text) == FilterValid(TrimmedLines(text))
\* the step in which the coordinator of session s aggregates
IsAggregation(s) == coord[s] = "awaiting" /\ coord'[s] = "aggregated"

\* C33: in the step in which the coordinator replaces a side's proxy list
\* from fetched content (the content is a non-empty string), validateProxies
\* of the new list reports it valid with no invalid line, its totalLines is
\* the number of lines of the content that match, and the lines of the new
\* list are the matching lines of the content in their order, a line that
\* occurs twice in the content occurring twice in the list.
C33_ReplacedListValidates ==
    [][\A s \in Sessions, x \in Side :
           (IsAggregation(s) /\ Truthy(unit'[s][x].result)) =>
               LET kept == MatchingLines(unit'[s][x].result.text)
                   v    == validateProxies(proxies'[x])
               IN  /\ v.isValid
                   /\ v.invalidLines = <<>>
                   /\ v.totalLines = Len(kept)
                   /\ TrimmedLines(proxies'[x]) = kept]_vars

\* C33 witness: side A was replaced from a body with invalid lines and a
\* duplicate; the list holds three lines, the first and the last equal
C33_Witness ==
    /\ coord[1] = "aggregated"
    /\ unit[1]["A"].result = Content(BodyMixed)
    /\ validationLeft.isValid
    /\ validationLeft.totalLines = 3
    /\ TrimmedLines(proxies["A"]) = <<Line_1234_80, Line_9999_1, Line_1234_80>>
    /\ Len(TrimmedLines(BodyMixed)) = 4

\* both proxy lists have zero non-empty lines
BothListsEmpty == \A x \in Side : TrimmedLines(proxies[x]) = <<>>
\* the entry of a start request rejected because both lists are empty
EmptyListsEntry == Entry("error", "preflightFailed", "empty", 0, 0, 0)

\* C34: while both proxy lists have zero non-empty lines, validateProxies
\* reports each of them as valid, and yet no start request is accepted: a
\* start request appends exactly one error entry, naming the empty lists, to
\* the Log Buffer and changes nothing else.  A start request is accepted
\* only when both lists are valid and at least one of them has a line.
\* While an earlier start is in its processing phase (isProcessing is set)
\* a start request neither starts a run nor logs a rejection.
C34_EmptyListsRejectedBusyIgnored ==
    [][/\ BothListsEmpty =>
            /\ validationLeft.isValid /\ validationRight.isValid
            /\ ~IsAcceptedStart
            /\ IsRejectedStart =>
                 /\ logs' = Append(logs, EmptyListsEntry)
                 /\ sim' = [sim EXCEPT !.extras = sim.extras + 1]
                 /\ UNCHANGED <<url, proxies, status, abortRef, aborted, unit, coord, atAbort>>
       /\ IsAcceptedStart =>
            /\ validationLeft.isValid /\ validationRight.isValid
            /\ ~BothListsEmpty
       /\ sim.isProcessing => ~IsAcceptedStart /\ ~IsRejectedStart]_vars

\* C34 witness: with the empty lists of a fresh profile the start request was
\* rejected with the one entry; then a list got a line, the start request
\* was accepted and the run was stopped during the processing phase, where
\* INITIATE BATCH is shown again
C34_Witness ==
    /\ Len(logs) = 3
    /\ logs[1] = EmptyListsEntry
    /\ logs[2].msg = "initiatingInjection"
    /\ ~BothListsEmpty
    /\ sim.runs = 1
    /\ sim.isProcessing
    /\ sim.status = "Connected"

\* the values of the History Buffer are non-decreasing from oldest to newest
NonDecreasing(h) == \A i \in 1..(Len(h) - 1) : h[i].views <= h[i + 1].views

\* C35: an interval callback that runs with videoViews >= 0 and
\* incrementPercentage >= 0 does not decrease the cumulative total; and as
\* long as every interval callback since the accepted start ran with such a
\* configuration, the values of the History Buffer are non-decreasing from
\* oldest to newest and none is above the cumulative total, whatever RESET
\* DATA clicks and edits of the configuration happened during the run.
C35_TotalAndHistoryMonotonic ==
    /\ [][(IsTick /\ sim.videoViews >= 0 /\ sim.incrementPercentage >= 0) =>
             sim'.simulatedViews >= sim.simulatedViews]_vars
    /\ [](sim.nonneg =>
            /\ NonDecreasing(sim.viewHistory)
            /\ \A i \in 1..Len(sim.viewHistory) :
                   sim.viewHistory[i].views <= sim.simulatedViews)

\* C35 witness: in a run the configuration was edited to a smaller, still
\* non-negative videoViews, and the two ticks of the run added different
\* amounts; the history holds the seed and both totals
C35_Witness ==
    /\ sim.status = "Running"
    /\ sim.nonneg
    /\ sim.edits = 1
    /\ sim.videoViews = 3
    /\ Len(sim.viewHistory) = 3
    /\ sim.viewHistory[1].views = videoViewsDefault
    /\ sim.viewHistory[2].views > sim.viewHistory[1].views
    /\ sim.viewHistory[3].views = sim.viewHistory[2].views
    /\ sim.ticks - sim.started = 2

\* the number of digits of the plain decimal numeral of n < 10000
NumDigits(n) == IF n < 10 THEN 1 ELSE IF n < 100 THEN 2 ELSE IF n < 1000 THEN 3 ELSE 4
\* the address of the typed line is 1.20.0.7 in some spelling
IsSampleAddress(t) == t # NoNumbers /\ t.octets = <<1, 20, 0, 7>>

\* C36: a line a.b.c.d:port written from numbers with zeros put before its
\* octets, the port being a plain numeral from 1 to 65535, is valid exactly
\* when every octet is written with at most three digits, zeros included,
\* and has a value of at most 255; so a line with an octet such as 01, 007
\* or 000 is valid and a line with an octet of four or more digits is not.
C36_LeadingZeroOctets ==
    LET t == sim.typed
    IN  (t # NoNumbers /\ t.zeros = 0 /\ t.port \in 1..65535) =>
          (validationLeft.isValid <=>
              \A i \in 1..4 : /\ t.pads[i] + NumDigits(t.octets[i]) <= 3
                              /\ t.octets[i] <= 255)

\* C36 witness: the address 1.20.0.7 written as 01.020.000.007 passed the
\* pre-flight check and the run was started
C36_Witness ==
    /\ IsSampleAddress(sim.typed)
    /\ sim.typed.pads = <<1, 1, 2, 2>>
    /\ proxiesLeft = <<"0", "1", ".", "0", "2", "0", ".", "0", "0", "0", ".",
                       "0", "0", "7", ":", "8", "0">>
    /\ validationLeft = [isValid |-> TRUE, invalidLines |-> <<>>, totalLines |-> 1]
    /\ sim.status = "Running"

====
